---- MODULE Spec2Model ----
(***************************************************************************)
(* State-machine model of the InteractiveEQ module (draggable filter       *)
(* handles on a frequency-response graph).                                 *)
(*                                                                         *)
(* Units.  Frequencies are in tenths of a Hz (deci-Hz), so an integer      *)
(* number of Hz is a multiple of 10 and [20, 20000] Hz is 200..200000.     *)
(* Gains and curve levels are in hundredths of a dB (centi-dB), so the     *)
(* 0.1 dB grid is the multiples of 10.  Q is in hundredths, so [0.1, 10]   *)
(* is 10..1000.  Pointer positions are integer pixels; the screen          *)
(* transform (getScreenCTM) is the identity.                               *)
(* Array indices are the code's 0-based indices; a JavaScript array is a   *)
(* sequence and At(s, i) is its element i.                                 *)
(***************************************************************************)
EXTENDS Integers, Sequences, FiniteSets, TLC

\* -------------------------------------------------------------------------
\* Bounds of the model
\* -------------------------------------------------------------------------
\* user and host events explored per behaviour, for Spec and for SpecDrag
MaxSteps == 5
MaxDragSteps == 7
MaxTouchSteps == 9
MaxWheelSteps == 3
MaxHandleSteps == 5
MaxSampleSteps == 2
MaxPressSteps == 6
MaxWhiskerSteps == 1
\* touches that are down at one time
MaxTouches == 2
MaxClickSteps == 5

\* -------------------------------------------------------------------------
\* Program constants
\* -------------------------------------------------------------------------
DragThreshold == 5
FreqMin == 20
FreqMax == 20000
GainMin == -4000
GainMax == 4000
QMin == 10
QMax == 1000
QDefault == 100
TapWindow == 300
LongPressDelay == 500
LongPressSlop == 3
MobileWhiskerDelay == 3000
ClickDelay == 250
WhiskerFadeDelay == 2000
WhiskerFreqDefault == 1000

\* value of a Q field that parseFloat does not parse (NaN)
NaN == -999999

\* -------------------------------------------------------------------------
\* Arithmetic helpers
\* -------------------------------------------------------------------------
Max(a, b) == IF a >= b THEN a ELSE b
Min(a, b) == IF a <= b THEN a ELSE b
Abs(a) == IF a < 0 THEN -a ELSE a

\* floor(num / den) for den > 0
FloorDiv(num, den) == num \div den

\* Math.round(num / den) for den > 0: floor(x + 0.5), halves go up
MathRound(num, den) == FloorDiv(2 * num + den, 2 * den)

RECURSIVE GCD(_, _)
GCD(a, b) == IF b = 0 THEN a ELSE GCD(b, a % b)

At(s, i) == s[i + 1]
Indices(s) == 0 .. (Len(s) - 1)

\* Array.prototype.findIndex, given the set of indices whose element passes
\* the test: the first of them, or -1
FindIndex(matching) ==
    IF matching = {} THEN -1
    ELSE CHOOSE i \in matching : \A j \in matching : i <= j

SpliceToEnd(s, idx) == IF idx < Len(s) THEN SubSeq(s, 1, idx) ELSE s

\* Array.prototype.splice(idx, 1) for idx >= 0: remove the element at idx, if any
Splice1(s, idx) ==
    IF idx < Len(s)
    THEN [i \in 1 .. (Len(s) - 1) |-> IF i <= idx THEN s[i] ELSE s[i + 1]]
    ELSE s

\* -------------------------------------------------------------------------
\* Injected dependencies: scales and geometry of the host chart
\* -------------------------------------------------------------------------
\* scales.x.invert at the pixel columns the pointer visits (a log axis), in
\* deci-Hz: 15 Hz, 100 Hz, 100.4 Hz, 100.5 Hz, 200 Hz, 25 kHz
XInvert(px) ==
    CASE px = 0 -> 150
      [] px = 10 -> 1000
      [] px = 13 -> 1004
      [] px = 14 -> 1005
      [] px = 20 -> 2000
      [] px = 60 -> 250000

\* scales.y.invert (a linear axis), in centi-dB: 0.37 dB per pixel
YInvert(py) == 9185 - 37 * py

\* geometry.pad.l, geometry.W, geometry.pad.t, geometry.H
PadL == 5
PlotW == 60
PadT == 5
PlotH == 40

\* scales.y.domain(): the visible gain axis, bottom and top of the plot area
YDomain == <<YInvert(PadT + PlotH), YInvert(PadT)>>

\* positions of the pointer, <<clientX, clientY>>: where it goes down on a
\* handle, where it moves to (4 px, exactly 5 px and far from HandlePoint,
\* and outside the plot area), where it clicks, and the columns of a whisker end
HandlePoint == <<10, 10>>
MovePoints == {<<14, 10>>, <<13, 14>>, <<60, 40>>, <<0, 200>>}
ClickPoints == {<<13, 14>>, <<60, 40>>, <<0, 200>>}
WhiskerColumns == {0, 10, 20, 60}

\* -------------------------------------------------------------------------
\* Phone/Curve Sampling
\* -------------------------------------------------------------------------
\* a slot of phoneObj.activeCurves / phoneObj.rawChannels: absent (undefined or
\* null), an array of [freq, level] samples, or some other truthy value
Absent == [kind |-> "absent", data |-> <<>>]
ArrayOf(samples) == [kind |-> "array", data |-> samples]
NotArray == [kind |-> "object", data |-> <<>>]

CurveA == << <<200, 4470>>, <<10000, 4770>>, <<200000, 4470>> >>
OffsetA == 30

\* the devices the host can offer; NoPhone is the falsy result of getEQPhoneObj
NoPhone == [present |-> FALSE, active |-> Absent, raw |-> Absent, offset |-> 0]
PhoneA == [present |-> TRUE, active |-> ArrayOf(CurveA), raw |-> Absent, offset |-> OffsetA]
PhoneRaw == [present |-> TRUE, active |-> Absent, raw |-> ArrayOf(CurveA), offset |-> 0]
PhoneNoData == [present |-> TRUE, active |-> Absent, raw |-> Absent, offset |-> 0]

\* devices whose sample data is an object that is not an array, an empty array
\* (as the .l of the active curve, as the raw channel), one sample, the curve
\* (20, 0), (1000, 3), (20000, 0), and a curve that ends in two samples of one
\* frequency
PhoneObject == [present |-> TRUE, active |-> NotArray, raw |-> ArrayOf(CurveA), offset |-> 0]
PhoneEmpty == [present |-> TRUE, active |-> ArrayOf(<<>>), raw |-> Absent, offset |-> OffsetA]
PhoneRawEmpty == [present |-> TRUE, active |-> Absent, raw |-> ArrayOf(<<>>), offset |-> 0]
PhoneSingle == [present |-> TRUE, active |-> ArrayOf(<< <<10000, 4770>> >>), raw |-> Absent,
                offset |-> OffsetA]
CurveB == << <<200, 0>>, <<10000, 300>>, <<200000, 0>> >>
PhoneB == [present |-> TRUE, active |-> ArrayOf(CurveB), raw |-> Absent, offset |-> 0]
CurveDup == << <<200, 0>>, <<10000, 300>>, <<10000, 500>> >>
PhoneDup == [present |-> TRUE, active |-> ArrayOf(CurveDup), raw |-> Absent, offset |-> OffsetA]
\* a measurement that ends at 10 kHz
CurveShort == << <<200, 0>>, <<10000, 300>>, <<100000, 100>> >>
PhoneShort == [present |-> TRUE, active |-> ArrayOf(CurveShort), raw |-> Absent, offset |-> 0]

\* results of samplePhoneCurveAt: null, the number num / den, or a TypeError
SampleNull == [kind |-> "null", num |-> 0, den |-> 1]
SampleThrow == [kind |-> "throw", num |-> 0, den |-> 1]
SampleNonFinite == [kind |-> "nonfinite", num |-> 0, den |-> 1]
SampleNum(n, d) == [kind |-> "num", num |-> n, den |-> d]

\* baseline.fn of the host: no baseline selected, the samples pass unchanged
BaselineFn(curveData) == curveData

\* the level of the first sample at or above freq, without interpolation
SamplePhoneCurveStep(phoneObj, freq) ==
    IF ~phoneObj.present THEN SampleNull
    ELSE
      LET curveData == IF phoneObj.active.kind # "absent" THEN phoneObj.active
                       ELSE phoneObj.raw
      IN IF curveData.kind # "array" THEN SampleNull
         ELSE IF Len(curveData.data) = 0 THEN SampleThrow
         ELSE
           LET data == curveData.data
               found == FindIndex({i \in Indices(data) : At(data, i)[1] >= freq})
               idx == IF found < 0 THEN Len(data) - 1 ELSE found
           IN SampleNum(At(data, idx)[2] + phoneObj.offset, 1)

SamplePhoneCurveAt(phoneObj, freq) ==
    IF ~phoneObj.present THEN SampleNull
    ELSE
      LET offset == phoneObj.offset
          curveData == IF phoneObj.active.kind # "absent" THEN phoneObj.active
                       ELSE phoneObj.raw
      IN IF curveData.kind # "array" THEN SampleNull
         ELSE
           LET data == BaselineFn(curveData.data)
               found == FindIndex({i \in Indices(data) : At(data, i)[1] >= freq})
               idx == IF found < 0 THEN Len(data) - 1 ELSE found
           IN IF idx = 0 THEN SampleNum(At(data, 0)[2] + offset, 1)
              ELSE IF idx < 0 THEN SampleThrow
              ELSE
                LET p1 == At(data, idx - 1)
                    p2 == At(data, idx)
                    den == p2[1] - p1[1]
                    num == (p1[2] + offset) * den + (freq - p1[1]) * (p2[2] - p1[2])
                IN IF den = 0 THEN SampleNonFinite
                   ELSE IF den > 0 THEN SampleNum(num, den)
                   ELSE SampleNum(-num, -den)

\* -------------------------------------------------------------------------
\* Pointer geometry to filter parameters
\* -------------------------------------------------------------------------
Clamp(lo, hi, v) == Max(lo, Min(hi, v))

\* targetY minus the curve level, or minus the centre of the visible gain axis
\* when the sampler returned null; then Math.round(gain * 10) / 10 and the
\* clamp to [-40, 40].  Math.round and the clamp leave a NaN as it is.
GainFrom(targetY, curveY) ==
    IF curveY.kind = "nonfinite" THEN NaN
    ELSE
      LET num == IF curveY.kind = "null"
                 THEN 2 * targetY - (YDomain[1] + YDomain[2])
                 ELSE targetY * curveY.den - curveY.num
          den == IF curveY.kind = "null" THEN 2 ELSE curveY.den
      IN Clamp(GainMin, GainMax, 10 * MathRound(num, 10 * den))

DragFreqUnrounded(px) == Clamp(10 * FreqMin, 10 * FreqMax, XInvert(px))

\* startDrag.onMove, animation-frame callback: newFreq and newGain
DragFreq(px) == Clamp(10 * FreqMin, 10 * FreqMax, 10 * MathRound(XInvert(px), 10))
DragGain(targetY, curveY) == GainFrom(targetY, curveY)

\* handleGraphClick: freq and gain
ClickFreq(px) == Clamp(10 * FreqMin, 10 * FreqMax, 10 * MathRound(XInvert(px), 10))
ClickGain(targetY, curveY) == GainFrom(targetY, curveY)

InsidePlot(pt) ==
    ~(\/ pt[1] < PadL
      \/ pt[1] > PadL + PlotW
      \/ pt[2] < PadT
      \/ pt[2] > PadT + PlotH)

\* -------------------------------------------------------------------------
\* Module state, host state and history variables
\* -------------------------------------------------------------------------
\* host: getBandsMax()
BandsMax == 2

\* Date.now() when the module is constructed
StartTime == 1000

VARIABLES
    initialized,        \* module state
    enabled,
    initListeners,      \* the document listeners init() registers, as the number
                        \* of registrations of each
    listeners,          \* the event listeners enable() registers, as the number
                        \* of registrations of each
    isDragging,
    wasDragged,
    pendingFrame,       \* the scheduled animation-frame callback, with the
                        \* filterIndex, cx, cy its closure captured
    frames,             \* the callbacks requestAnimationFrame holds, in the order
                        \* they were requested
    justDeletedFilter,
    sessions,           \* the startDrag closures, in creation order
    dragEndTimers,      \* pending 120 ms timeouts of onUp
    deleteTimers,       \* pending 100 ms timeouts of deleteFilter
    whisker,            \* the d3.drag gesture on a whisker end, if one is active
    longPress,          \* longPressTimer and longPressStartPos of each closure
                        \* of updateEQHandles that made handles
    longPressTimers,    \* the pending 500 ms timeouts of touchstart.whisker
    mobileWhisker,      \* mobileWhiskerTimeout of each closure, with the handle
                        \* its pending 3000 ms timeout will hide
    touches,            \* the touches that are down on handles, oldest first
    handles,            \* the .eq-handle elements, by filterIndex
    lastTap,            \* lastTapTime and lastTapElement of each bindHandleEvents
                        \* closure (one per updateEQHandles call that made handles)
    now,                \* Date.now()
    filters,            \* host: the filter rows (getFilters / getFilterInputs)
    bands,              \* host: getBands()
    phones,             \* host: the active phones, also the options of the select
    eqPhoneSelect,      \* host: the selected option, 0 for the empty one
    steps,              \* history: events left to explore
    prevTap,            \* history: the latest touchstart on a handle
    sampled,            \* history: the latest direct call of samplePhoneCurveAt,
                        \* its frequency and its result
    roundTrip,          \* history: a filter's frequency and Q, and the Q the
                        \* whisker drag stores when an end is dropped at the edge
                        \* of the band of that Q
    lastOp,             \* history: the handler that ran last and what it called
    clickTimer,         \* clickTimer of each closure of updateEQHandles, with the
                        \* handle its pending 250 ms timeout will toggle
    whiskerFadeTimers,  \* the pending 2000 ms timeouts of the whiskerFadeTimers
                        \* maps, with the handle each will hide
    hoveredHandle,      \* the element of hoveredHandle, 0 for null
    clickRun            \* the browser's click count: the element the latest
                        \* click was on, the clicks in a row, the time of the
                        \* latest; history: whether the element's secondary
                        \* controls were shown at the first click of the row

vars == <<initialized, enabled, initListeners, listeners, isDragging, wasDragged, pendingFrame, frames,
          justDeletedFilter, sessions, dragEndTimers, deleteTimers, whisker,
          longPress, longPressTimers, mobileWhisker, touches, handles, lastTap, now, filters, bands, phones, eqPhoneSelect, steps,
          prevTap, sampled, roundTrip, lastOp,
          clickTimer, whiskerFadeTimers, hoveredHandle, clickRun>>

lifecycleVars == <<initialized, enabled, initListeners, listeners>>
dragVars == <<isDragging, wasDragged, pendingFrame, frames, sessions, dragEndTimers>>
deleteVars == <<justDeletedFilter, deleteTimers>>
handleVars == <<handles, lastTap>>
pressVars == <<longPress, longPressTimers, mobileWhisker, touches>>
clickVars == <<clickTimer, whiskerFadeTimers, hoveredHandle, clickRun>>
moduleVars == <<lifecycleVars, dragVars, deleteVars, whisker, pressVars, clickVars,
                handleVars>>
hostVars == <<filters, bands, phones, eqPhoneSelect>>


FilterTypes == <<"PK", "LSQ", "HSQ">>

\* a filter row of the host.  History: wrote is the set of its numeric fields
\* whose present value was stored by this module
Filter(en, ty, fr, ga, qq) ==
    [enabled |-> en, type |-> ty, freq |-> fr, gain |-> ga, q |-> qq, wrote |-> {}]
\* a row the host has not filled in
BlankFilter == Filter(FALSE, "PK", 0, 0, NaN)

NoFrame == [set |-> FALSE, sid |-> 0, filterIndex |-> 0, cx |-> 0, cy |-> 0]
\* a handle element: its datum d (freq), the closure (batch) its tap
\* listeners belong to, its class "disabled", and whether its secondary
\* controls (whisker, whisker ends, delete button) are shown: the class
\* "whisker-selected" and their opacity
\* The transform of the element is kept as the arguments given to scales.x
\* and scales.y (pos: frequency x and level num / den in lowest terms), which
\* decide the pixel position since both scales are strictly monotone.  born
\* tells the elements apart that were appended for one index at different
\* times: a number no element has that is in the document or that a drag
\* session still holds.
NoPosition == [x |-> 0, num |-> 0, den |-> 1]
NoHandle == [present |-> FALSE, freq |-> 0, batch |-> 0, disabled |-> FALSE,
             selected |-> FALSE, born |-> 0, pos |-> NoPosition]
Batches == 1 .. BandsMax
\* let lastTapTime = 0; let lastTapElement = null (elem is a filterIndex)
NoTap == [time |-> 0, elem |-> -1]
\* history of the latest touchstart on a handle: the handle, the clock, whether
\* it cycled the type, and whether the touchstart before it was on the same
\* handle and cycled the type
NoPrevTap == [any |-> FALSE, idx |-> 0, batch |-> 0, time |-> 0, cycled |-> FALSE,
              afterDouble |-> FALSE]
\* the listeners of enable(): the named functions preventScrollOnHandles (on
\* the SVG element) and handleTouchEnd (on the document), registered for the
\* capture phase, and the d3 listeners of the interaction rectangle with the
\* name "interactive"
DomListeners == {"svg.touchstart", "svg.touchmove", "document.touchend"}
RectListeners == {"rect.click", "rect.touchstart", "rect.touchend"}
NoListeners == [k \in DomListeners \cup RectListeners |-> 0]
\* the listeners of init(): function expressions, registered on the document
InitListenerTypes == {"document.keydown", "document.keyup", "document.focus"}
NoInitListeners == [k \in InitListenerTypes |-> 0]
NoRoundTrip == [any |-> FALSE, freq |-> 0, q |-> <<1, 1>>, side |-> "left", newQ |-> 0]
NoSample == [any |-> FALSE, freq |-> 0, result |-> SampleNull]
NoWhisker == [active |-> FALSE, idx |-> 0, side |-> "left", freq |-> 0, drawnQ |-> NaN]

\* history of the handler that ran last: its name, the filterIndex and point it
\* was given, the number of applyEQ calls it made, whether it threw, and, for
\* enable() and disable(), the host callbacks and the re-render it invoked and
\* whether the module was enabled when it was called
Op(name, idx, pt, applied, threw) ==
    [name |-> name, idx |-> idx, pt |-> pt, applied |-> applied, threw |-> threw,
     calls |-> {}, wasEnabled |-> FALSE]
NoPoint == <<0, 0>>

\* let longPressTimer = null; let longPressStartPos = null (timer is the id
\* setTimeout returned, 0 for null)
NoLongPress == [timer |-> 0, hasPos |-> FALSE, startPos |-> NoPoint]
\* let mobileWhiskerTimeout = null; let clickTimer = null
NoTimeout == [set |-> FALSE, idx |-> 0, born |-> 0, due |-> 0]
\* no click yet
NoClickRun == [born |-> 0, count |-> 0, at |-> 0, shown |-> FALSE]

\* getEQPhoneObj
GetEQPhoneObj(sel) ==
    IF sel # 0 /\ sel <= Len(phones) THEN phones[sel] ELSE NoPhone

\* the host states the module can be constructed in
HostFilters ==
    { <<BlankFilter>>,
      <<Filter(TRUE, "PK", 1000, 0, 123), Filter(TRUE, "HSQ", 20000, -300, NaN)>> }
HostPhones == { <<>>, <<PhoneA>> }

Init ==
    /\ initialized = FALSE
    /\ enabled = FALSE
    /\ initListeners = NoInitListeners
    /\ listeners = NoListeners
    /\ isDragging = FALSE
    /\ wasDragged = FALSE
    /\ pendingFrame = NoFrame
    /\ frames = <<>>
    /\ justDeletedFilter = FALSE
    /\ sessions = <<>>
    /\ dragEndTimers = 0
    /\ deleteTimers = 0
    /\ whisker = NoWhisker
    /\ longPress = [b \in Batches |-> NoLongPress]
    /\ longPressTimers = {}
    /\ mobileWhisker = [b \in Batches |-> NoTimeout]
    /\ touches = <<>>
    /\ handles = [i \in 0 .. (BandsMax - 1) |-> NoHandle]
    /\ lastTap = [b \in Batches |-> NoTap]
    /\ now = StartTime
    /\ prevTap = NoPrevTap
    /\ sampled = NoSample
    /\ roundTrip = NoRoundTrip
    /\ filters \in HostFilters
    /\ bands = Len(filters)
    /\ phones \in HostPhones
    /\ eqPhoneSelect \in 0 .. Len(phones)
    /\ steps = MaxSteps
    /\ lastOp = Op("none", 0, NoPoint, 0, FALSE)
    /\ clickTimer = [b \in Batches |-> NoTimeout]
    /\ whiskerFadeTimers = {}
    /\ hoveredHandle = 0
    /\ clickRun = NoClickRun

\* -------------------------------------------------------------------------
\* Host callbacks (the surrounding application)
\* -------------------------------------------------------------------------
\* setBands(n) followed by updateFilterElements(): the host keeps n rows,
\* new rows are blank
HostSetBands(rows, n) ==
    [i \in 1 .. n |-> IF i <= Len(rows) THEN rows[i] ELSE BlankFilter]

\* setFilters(list): the host writes the list into its rows, in order
HostSetFilters(rows, list) ==
    [i \in 1 .. Len(rows) |-> IF i <= Len(list) THEN list[i] ELSE BlankFilter]

\* -------------------------------------------------------------------------
\* Handle Management
\* -------------------------------------------------------------------------
\* updateEQHandles: the data join of the handles with the filters that have
\* a frequency, keyed by filterIndex
ShownFilterIfEnabled(f) == f.enabled /\ f.freq # NaN /\ f.freq # 0 /\ f.freq > 0

ShownFilter(f) == f.freq # NaN /\ f.freq # 0 /\ f.freq > 0

\* the closure of the handles this call appends: one no remaining handle uses
FreshBatch(hs, en, fs) ==
    CHOOSE b \in Batches :
        /\ \A i \in DOMAIN hs :
              (hs[i].present /\ en /\ i < Len(fs) /\ ShownFilter(At(fs, i)))
                  => hs[i].batch # b
        /\ \A c \in Batches :
              (\A i \in DOMAIN hs :
                  (hs[i].present /\ en /\ i < Len(fs) /\ ShownFilter(At(fs, i)))
                      => hs[i].batch # c) => b <= c

\* d.disabled of the filter objects of callbacks.getFilters(): the row's
\* enabled box is not checked
FilterDisabled(f) == ~f.enabled

\* a position as scale arguments, the level in lowest terms
LevelPoint(x, num, den) ==
    [x |-> x, num |-> num \div GCD(Abs(num), den), den |-> den \div GCD(Abs(num), den)]

\* the transform the animation-frame callback of a drag gives the handle:
\* translate(scales.x(newFreq), scales.y(targetY))
PreviewPosition(newFreq, targetY) == LevelPoint(newFreq, targetY, 1)

\* the transform updateEQHandles gives the handle of the filter f:
\* translate(scales.x(clamped d.freq), scales.y(curveY + (d.gain || 0))), with
\* the centre of the gain axis for curveY when the sampler returned null
RenderPosition(f, phoneObj) ==
    LET curveY == SamplePhoneCurveAt(phoneObj, f.freq)
        gain == IF f.gain = NaN THEN 0 ELSE f.gain
        x == Clamp(10 * FreqMin, 10 * FreqMax, f.freq)
    IN IF curveY.kind = "num"
       THEN LevelPoint(x, curveY.num + gain * curveY.den, curveY.den)
       ELSE IF curveY.kind = "null"
       THEN LevelPoint(x, YDomain[1] + YDomain[2] + 2 * gain, 2)
       ELSE [x |-> x, num |-> NaN, den |-> 1]

\* the identity of the elements this call appends
FreshBorn(hs) ==
    LET used == {hs[i].born : i \in {j \in DOMAIN hs : hs[j].present}}
                  \cup {sessions[k].elem : k \in 1 .. Len(sessions)}
    IN CHOOSE n \in 1 .. (Cardinality(used) + 1) :
          n \notin used /\ \A k \in 1 .. (n - 1) : k \in used

UpdateEQHandles(hs, en, fs, sel) ==
    [i \in 0 .. (BandsMax - 1) |->
        IF en /\ i < Len(fs) /\ ShownFilter(At(fs, i))
        THEN [present |-> TRUE, freq |-> At(fs, i).freq,
              batch |-> IF hs[i].present THEN hs[i].batch ELSE FreshBatch(hs, en, fs),
              disabled |-> FilterDisabled(At(fs, i)),
              selected |-> hs[i].present /\ hs[i].selected,
              born |-> IF hs[i].present THEN hs[i].born ELSE FreshBorn(hs),
              pos |-> RenderPosition(At(fs, i), GetEQPhoneObj(sel))]
        ELSE NoHandle]

\* bindHandleEvents of the appended handles starts with no tap recorded
TapsAfterUpdate(hs, en, fs) ==
    IF \E i \in DOMAIN hs : ~hs[i].present /\ en /\ i < Len(fs) /\ ShownFilter(At(fs, i))
    THEN [lastTap EXCEPT ![FreshBatch(hs, en, fs)] = NoTap]
    ELSE lastTap

\* -------------------------------------------------------------------------
\* Initialization, Enable/Disable, public API
\* -------------------------------------------------------------------------
\* EventTarget.addEventListener with a function object made by the call
AddAnonymousListener(ls, k) == [ls EXCEPT ![k] = @ + 1]

\* EventTarget.addEventListener(type, callback, {capture: true, ...}) with a
\* named function of the module: the DOM keeps one registration per (type,
\* callback, capture), so a second call with the same function adds nothing
AddEventListener(ls, k) == [ls EXCEPT ![k] = IF @ > 0 THEN @ ELSE 1]

\* EventTarget.removeEventListener(type, callback, {capture: true})
RemoveEventListener(ls, k) == [ls EXCEPT ![k] = IF @ > 0 THEN @ - 1 ELSE 0]

\* selection.on(typename, listener): d3 removes the listener of that type and
\* name before it adds the new one; a null listener only removes
SelectionOn(ls, k, listener) == [ls EXCEPT ![k] = IF listener THEN 1 ELSE 0]

RECURSIVE ApplyToAll(_, _, _, _)
\* the registrations of one call, in the order of the code
ApplyToAll(ls, keys, dom, add) ==
    IF keys = {} THEN ls
    ELSE LET k == CHOOSE x \in keys : TRUE
             next == IF k \in dom
                     THEN IF add THEN AddEventListener(ls, k)
                                 ELSE RemoveEventListener(ls, k)
                     ELSE SelectionOn(ls, k, add)
         IN ApplyToAll(next, keys \ {k}, dom, add)

\* the three document.addEventListener calls of init(): each is given a new
\* function object, so each call adds a registration
InitListen(ls) == [k \in InitListenerTypes |-> ls[k] + 1]

\* init(options)
InitModule ==
    /\ steps > 0
    /\ initialized' = TRUE
    /\ initListeners' = IF initialized THEN initListeners ELSE InitListen(initListeners)
    /\ steps' = steps - 1
    /\ lastOp' = Op("init", 0, NoPoint, 0, FALSE)
    /\ UNCHANGED <<enabled, listeners, dragVars, deleteVars, whisker, pressVars, handleVars, now, prevTap, sampled, roundTrip,
                   hostVars, clickVars>>

Enable ==
    /\ steps > 0
    /\ steps' = steps - 1
    /\ IF ~initialized
       THEN /\ lastOp' = [Op("enable", 0, NoPoint, 0, FALSE) EXCEPT
                              !.wasEnabled = enabled]
            /\ UNCHANGED <<enabled, listeners, handleVars>>
       ELSE /\ enabled' = TRUE
            /\ listeners' = ApplyToAll(listeners, DomListeners \cup RectListeners,
                                       DomListeners, TRUE)
            /\ lastOp' = [Op("enable", 0, NoPoint, 0, FALSE) EXCEPT
                              !.calls = {"clearLabels", "updatePaths", "updateEQHandles"},
                              !.wasEnabled = enabled]
            /\ handles' = UpdateEQHandles(handles, TRUE, filters, eqPhoneSelect)
            /\ lastTap' = TapsAfterUpdate(handles, TRUE, filters)
    /\ UNCHANGED <<initialized, initListeners, dragVars, deleteVars, whisker, pressVars, now, prevTap, sampled, roundTrip, hostVars, clickVars>>

Disable ==
    /\ steps > 0
    /\ steps' = steps - 1
    /\ IF ~initialized
       THEN /\ lastOp' = [Op("disable", 0, NoPoint, 0, FALSE) EXCEPT
                              !.wasEnabled = enabled]
            /\ UNCHANGED <<enabled, listeners, handles>>
       ELSE /\ enabled' = FALSE
            /\ listeners' = ApplyToAll(listeners, DomListeners \cup RectListeners,
                                       DomListeners, FALSE)
            /\ lastOp' = [Op("disable", 0, NoPoint, 0, FALSE) EXCEPT
                              !.calls = {"updatePaths"},
                              !.wasEnabled = enabled]
            /\ handles' = [i \in 0 .. (BandsMax - 1) |-> NoHandle]
    /\ UNCHANGED <<initialized, initListeners, dragVars, deleteVars, whisker, pressVars, lastTap, now, prevTap, sampled, roundTrip,
                   hostVars, clickVars>>

\* destroy() of the public API: disable(), then the group of the handles and
\* the tooltip are removed and initialized is reset; the listeners of init()
\* stay registered
Destroy ==
    /\ steps > 0
    /\ steps' = steps - 1
    /\ IF ~initialized
       THEN /\ lastOp' = [Op("destroy", 0, NoPoint, 0, FALSE) EXCEPT
                              !.wasEnabled = enabled]
            /\ UNCHANGED <<initialized, enabled, listeners, handles>>
       ELSE /\ enabled' = FALSE
            /\ listeners' = ApplyToAll(listeners, DomListeners \cup RectListeners,
                                       DomListeners, FALSE)
            /\ lastOp' = [Op("destroy", 0, NoPoint, 0, FALSE) EXCEPT
                              !.calls = {"updatePaths"},
                              !.wasEnabled = enabled]
            /\ handles' = [i \in 0 .. (BandsMax - 1) |-> NoHandle]
            /\ initialized' = FALSE
    /\ UNCHANGED <<initListeners, dragVars, deleteVars, whisker, pressVars, lastTap, now, prevTap, sampled, roundTrip,
                   hostVars, clickVars>>

\* the host calls updateHandles() of the public API
UpdateHandles ==
    /\ steps > 0
    /\ initialized
    /\ steps' = steps - 1
    /\ lastOp' = Op("updateHandles", 0, NoPoint, 0, FALSE)
    /\ handles' = UpdateEQHandles(handles, enabled, filters, eqPhoneSelect)
    /\ lastTap' = TapsAfterUpdate(handles, enabled, filters)
    /\ UNCHANGED <<lifecycleVars, dragVars, deleteVars, whisker, pressVars, now, prevTap, sampled, roundTrip, hostVars, clickVars>>

\* -------------------------------------------------------------------------
\* Handle Drag Interactions
\* -------------------------------------------------------------------------
DistSq(a, b) == (a[1] - b[1]) * (a[1] - b[1]) + (a[2] - b[2]) * (a[2] - b[2])

BelowThresholdOff(start, pt) == DistSq(start, pt) < 4 * 4

\* Math.hypot(cx - startX, cy - startY) < 5
BelowThreshold(start, pt) == DistSq(start, pt) < DragThreshold * DragThreshold

\* closures of sessions that ended before this event and that no scheduled
\* frame refers to are gone
Retained(ss) ==
    SelectSeq(ss, LAMBDA s : s.live \/ (pendingFrame.set /\ pendingFrame.sid = s.sid))

\* a startDrag closure: filterIndex, startX/startY, moved and whether its
\* document listeners are registered (live).  History of the session: the
\* fields its frames wrote (writes) and its applyEQ calls (commits), both
\* counted up to 2; whether it received a move (seen), a move 5 px or more
\* from the start (crossed), and after that a move nearer than 5 px (returned)
NewSession(sid, filterIndex, pt) ==
    [sid |-> sid, filterIndex |-> filterIndex, elem |-> handles[filterIndex].born,
     start |-> pt, moved |-> FALSE,
     live |-> TRUE, writes |-> 0, commits |-> 0,
     seen |-> FALSE, crossed |-> FALSE, returned |-> FALSE]

\* startDrag(d, element, clientX, clientY)
StartDrag(filterIndex, pt) ==
    IF ~enabled
    THEN UNCHANGED <<isDragging, wasDragged, sessions>>
    ELSE /\ isDragging' = TRUE
         /\ wasDragged' = FALSE
         /\ sessions' = Append(Retained(sessions), NewSession(steps, filterIndex, pt))

\* mousedown on a handle
MouseDown(i, pt) ==
    /\ steps > 0
    /\ handles[i].present
    /\ steps' = steps - 1
    /\ lastOp' = Op("mousedown", i, pt, 0, FALSE)
    /\ StartDrag(i, pt)
    /\ UNCHANGED <<lifecycleVars, pendingFrame, frames, dragEndTimers, deleteVars, whisker, pressVars,
                   handleVars, now, prevTap, sampled, roundTrip, hostVars, clickVars>>

OnMoveMovedReversible(s, pt) == ~BelowThreshold(s.start, pt)

\* onMove of one session: the moved flag after the event
OnMoveMoved(s, pt) == ~(~s.moved /\ BelowThreshold(s.start, pt))

SlotNeverTaken(slot) == FALSE

\* if (pendingFrame) return
SlotTaken(slot) == slot.set

\* mousemove or touchmove on the document: onMove of every session whose
\* listeners are registered, in registration order.  The first session that
\* has moved and finds pendingFrame empty requests the animation frame.
DocMove(pt) ==
    /\ steps > 0
    /\ \E k \in 1 .. Len(sessions) : sessions[k].live
    /\ steps' = steps - 1
    /\ lastOp' = Op("move", 0, pt, 0, FALSE)
    /\ LET kept == Retained(sessions)
           after == [k \in 1 .. Len(kept) |->
                       IF kept[k].live
                       THEN [kept[k] EXCEPT
                               !.moved = OnMoveMoved(kept[k], pt),
                               !.seen = TRUE,
                               !.crossed = @ \/ DistSq(kept[k].start, pt) >= 5 * 5,
                               !.returned = @ \/ (kept[k].crossed
                                                  /\ DistSq(kept[k].start, pt) < 5 * 5)]
                       ELSE kept[k]]
           first == FindIndex({k \in Indices(after) : At(after, k).live /\ At(after, k).moved})
       IN /\ sessions' = after
          /\ wasDragged' = (wasDragged \/ first >= 0)
          /\ IF SlotTaken(pendingFrame) \/ first < 0
             THEN UNCHANGED <<pendingFrame, frames>>
             ELSE /\ pendingFrame' = [set |-> TRUE, sid |-> At(after, first).sid,
                                      filterIndex |-> At(after, first).filterIndex,
                                      cx |-> pt[1], cy |-> pt[2]]
                  /\ frames' = Append(frames, pendingFrame')
    /\ UNCHANGED <<lifecycleVars, isDragging, dragEndTimers, deleteVars, whisker, pressVars,
                   handleVars, now, prevTap, sampled, roundTrip, hostVars, clickVars>>

Bump(n) == Min(n + 1, 2)

\* the animation-frame callback scheduled by onMove
RunFrame ==
    /\ frames # <<>>
    /\ frames' = Tail(frames)
    /\ pendingFrame' = NoFrame
    /\ LET frame == Head(frames)
           idx == frame.filterIndex
           newFreq == DragFreq(frame.cx)
           targetY == YInvert(frame.cy)
           curveY == SamplePhoneCurveAt(GetEQPhoneObj(eqPhoneSelect), newFreq)
           newGain == DragGain(targetY, curveY)
           threw == curveY.kind = "throw"
           writes == ~threw /\ idx < Len(filters)
       IN /\ filters' =
                IF writes
                THEN [filters EXCEPT ![idx + 1].freq = newFreq,
                                     ![idx + 1].gain = newGain,
                                     ![idx + 1].wrote = @ \cup {"freq", "gain"}]
                ELSE filters
          /\ sessions' =
                [k \in 1 .. Len(sessions) |->
                    IF sessions[k].sid = frame.sid /\ writes
                    THEN [sessions[k] EXCEPT !.writes = Bump(@)]
                    ELSE sessions[k]]
          /\ handles' =
                IF ~threw /\ \E k \in 1 .. Len(sessions) :
                                /\ sessions[k].sid = frame.sid
                                /\ handles[idx].present
                                /\ handles[idx].born = sessions[k].elem
                THEN [handles EXCEPT ![idx].pos = PreviewPosition(newFreq, targetY)]
                ELSE handles
          /\ lastOp' = Op("frame", idx, <<frame.cx, frame.cy>>, 0, threw)
    /\ UNCHANGED <<lifecycleVars, isDragging, wasDragged, dragEndTimers, deleteVars,
                   whisker, pressVars, lastTap, now, prevTap, sampled, roundTrip, bands, phones, eqPhoneSelect,
                   steps, clickVars>>

\* mouseup or touchend on the document: onUp of every session whose listeners
\* are registered
DocUp ==
    /\ steps > 0
    /\ \E k \in 1 .. Len(sessions) : sessions[k].live
    /\ steps' = steps - 1
    /\ LET kept == Retained(sessions)
           Commits(s) == s.live /\ s.moved
           ended == SelectSeq(kept, LAMBDA s : s.live)
       IN /\ sessions' =
                [k \in 1 .. Len(kept) |->
                    IF kept[k].live
                    THEN [kept[k] EXCEPT
                            !.live = FALSE,
                            !.commits = IF Commits(kept[k]) THEN Bump(@) ELSE @]
                    ELSE kept[k]]
          /\ dragEndTimers' = dragEndTimers + Len(ended)
          /\ lastOp' = Op("up", 0, NoPoint, Len(SelectSeq(kept, Commits)), FALSE)
    /\ UNCHANGED <<lifecycleVars, isDragging, wasDragged, pendingFrame, frames, deleteVars,
                   whisker, pressVars, handleVars, now, prevTap, sampled, roundTrip, hostVars, clickVars>>

\* the 120 ms timeout of onUp
DragEndTimeout ==
    /\ dragEndTimers > 0
    /\ dragEndTimers' = dragEndTimers - 1
    /\ isDragging' = FALSE
    /\ lastOp' = Op("dragEndTimeout", 0, NoPoint, 0, FALSE)
    /\ UNCHANGED <<lifecycleVars, wasDragged, pendingFrame, frames, sessions, deleteVars,
                   whisker, pressVars, handleVars, now, prevTap, sampled, roundTrip, hostVars, steps, clickVars>>

\* -------------------------------------------------------------------------
\* Filter type cycle and wheel on a handle
\* -------------------------------------------------------------------------
\* types[(types.indexOf(t) + 1) % 3]; indexOf is -1 for any other value
TypeIndexOf(t) ==
    IF \E k \in 1 .. 3 : FilterTypes[k] = t
    THEN (CHOOSE k \in 1 .. 3 : FilterTypes[k] = t) - 1
    ELSE -1

NextTypeBackwards(t) == FilterTypes[((TypeIndexOf(t) + 2) % 3) + 1]

NextType(t) == FilterTypes[((TypeIndexOf(t) + 1) % 3) + 1]

\* cycleFilterType(d): the rows and the number of applyEQ calls; reading the
\* type field of a row that is gone throws
CycleFilterType(idx, event) ==
    IF ~enabled
    THEN /\ UNCHANGED filters
         /\ lastOp' = Op(event, idx, NoPoint, 0, FALSE)
    ELSE IF idx >= Len(filters)
    THEN /\ UNCHANGED filters
         /\ lastOp' = Op(event, idx, NoPoint, 0, TRUE)
    ELSE /\ filters' = [filters EXCEPT ![idx + 1].type = NextType(@)]
         /\ lastOp' = Op(event, idx, NoPoint, 1, FALSE)

\* dblclick on a handle
DblClick(i) ==
    /\ steps > 0
    /\ handles[i].present
    /\ steps' = steps - 1
    /\ CycleFilterType(i, "dblclick")
    /\ UNCHANGED <<moduleVars, now, prevTap, sampled, roundTrip, bands, phones, eqPhoneSelect>>

\* lastTapElement === element && now - lastTapTime < 300, for the handle at
\* index i
IsDoubleTapInclusive(i) ==
    /\ lastTap[handles[i].batch].elem = i
    /\ now - lastTap[handles[i].batch].time <= TapWindow

IsDoubleTap(i) ==
    /\ lastTap[handles[i].batch].elem = i
    /\ now - lastTap[handles[i].batch].time < TapWindow

\* touchstart on a handle
TouchStart(i, pt) ==
    /\ steps > 0
    /\ handles[i].present
    /\ steps' = steps - 1
    /\ IF IsDoubleTap(i)
       THEN /\ CycleFilterType(i, "touchstart")
            /\ lastTap' = [lastTap EXCEPT ![handles[i].batch] = NoTap]
            /\ UNCHANGED <<isDragging, wasDragged, sessions>>
       ELSE /\ lastTap' = [lastTap EXCEPT ![handles[i].batch] = [time |-> now, elem |-> i]]
            /\ StartDrag(i, pt)
            /\ lastOp' = Op("touchstart", i, pt, 0, FALSE)
            /\ UNCHANGED filters
    /\ prevTap' = [any |-> TRUE, idx |-> i, batch |-> handles[i].batch, time |-> now,
                   cycled |-> IsDoubleTap(i),
                   afterDouble |-> (prevTap.any /\ prevTap.idx = i
                                    /\ prevTap.batch = handles[i].batch
                                    /\ prevTap.cycled)]
    /\ UNCHANGED <<lifecycleVars, pendingFrame, frames, dragEndTimers, deleteVars, whisker, pressVars,
                   handles, now, sampled, roundTrip, bands, phones, eqPhoneSelect, clickVars>>

\* the clock advances by d ms
TickSet == {1, TapWindow - 1}
Tick(d) ==
    /\ steps > 0
    /\ steps' = steps - 1
    /\ now' = now + d
    /\ lastOp' = Op("tick", 0, NoPoint, 0, FALSE)
    /\ UNCHANGED <<moduleVars, prevTap, sampled, roundTrip, hostVars>>

\* parseFloat(value) || 1
ParseQ(v) == IF v = NaN \/ v = 0 THEN QDefault ELSE v

WheelQUnclamped(v, up, shift) ==
    LET step == IF shift THEN 1 ELSE 10
        q1 == IF up THEN ParseQ(v) + step ELSE ParseQ(v) - step
    IN {step * MathRound(q1, step)}

\* the values Math.round(q * precision) / precision can take, then the clamp.
\* In double arithmetic a q that lies exactly between two steps (q * 10 = n.5)
\* is rounded to either neighbour, depending on the operands.
WheelQ(v, up, shift) ==
    LET step == IF shift THEN 1 ELSE 10
        unit == IF shift THEN 1 ELSE 10
        q1 == IF up THEN ParseQ(v) + step ELSE ParseQ(v) - step
        lo == unit * FloorDiv(q1, unit)
    IN IF 2 * (q1 - lo) = unit
       THEN {Clamp(QMin, QMax, lo), Clamp(QMin, QMax, lo + unit)}
       ELSE {Clamp(QMin, QMax, unit * MathRound(q1, unit))}

\* the wheel event as <<sign of deltaY, shiftKey>>
WheelEvent(up, shift) == <<IF up THEN -1 ELSE 1, IF shift THEN 1 ELSE 0>>

\* wheel on a handle; up is deltaY < 0, shift is the shiftKey
Wheel(i, up, shift) ==
    /\ steps > 0
    /\ handles[i].present
    /\ steps' = steps - 1
    /\ IF ~enabled
       THEN /\ UNCHANGED filters
            /\ lastOp' = Op("wheel", i, WheelEvent(up, shift), 0, FALSE)
       ELSE IF i >= Len(filters)
       THEN /\ UNCHANGED filters
            /\ lastOp' = Op("wheel", i, WheelEvent(up, shift), 0, TRUE)
       ELSE /\ \E q \in WheelQ(At(filters, i).q, up, shift) :
                 filters' = [filters EXCEPT ![i + 1].q = q,
                                            ![i + 1].wrote = @ \cup {"q"}]
            /\ lastOp' = Op("wheel", i, WheelEvent(up, shift), 1, FALSE)
    /\ UNCHANGED <<moduleVars, now, prevTap, sampled, roundTrip, bands, phones, eqPhoneSelect>>

\* -------------------------------------------------------------------------
\* Mobile: long press to toggle whiskers
\* -------------------------------------------------------------------------
\* startMobileWhiskerTimeout(handle) in the closure b: the pending timeout, if
\* any, is cleared and one for this handle is set
StartMobileWhiskerTimeout(b, idx, born) ==
    [mobileWhisker EXCEPT ![b] = [set |-> TRUE, idx |-> idx, born |-> born,
                                  due |-> now + MobileWhiskerDelay]]

\* cancelMobileWhiskerTimeout() in the closure b
CancelMobileWhiskerTimeout(b) == [mobileWhisker EXCEPT ![b] = NoTimeout]

\* the element of the handle at idx is the one that was appended as born
IsElement(idx, born) == handles[idx].present /\ handles[idx].born = born

\* the id setTimeout returns, the identifier of a new touch
FreshTimer ==
    CHOOSE n \in 1 .. (Cardinality(longPressTimers) + 1) :
        /\ \A t \in longPressTimers : t.id # n
        /\ \A k \in 1 .. (n - 1) : \E t \in longPressTimers : t.id = k
FreshTouch ==
    LET used == {touches[k].tid : k \in 1 .. Len(touches)}
                  \cup {t.touch : t \in longPressTimers}
    IN CHOOSE n \in 1 .. (Cardinality(used) + 1) :
          n \notin used /\ \A k \in 1 .. (n - 1) : k \in used

\* touchstart.whisker on handle i, of a touch that goes down at pt.  The
\* listener leaves a pending long-press timeout as it is and overwrites
\* longPressTimer with the new one.
TouchStartWhisker(i, pt) ==
    /\ steps > 0
    /\ handles[i].present
    /\ Len(touches) < MaxTouches
    /\ steps' = steps - 1
    /\ LET b == handles[i].batch
           touch == [tid |-> FreshTouch, idx |-> i, born |-> handles[i].born,
                     batch |-> b, pt |-> pt, start |-> pt, slipped |-> FALSE]
           timer == [id |-> FreshTimer, batch |-> b, idx |-> i, born |-> handles[i].born,
                     due |-> now + LongPressDelay, touch |-> touch.tid]
       IN /\ touches' = Append(touches, touch)
          /\ longPress' = [longPress EXCEPT ![b] =
                               [timer |-> timer.id, hasPos |-> TRUE,
                                startPos |-> touches'[1].pt]]
          /\ mobileWhisker' = CancelMobileWhiskerTimeout(b)
          /\ longPressTimers' = longPressTimers \cup {timer}
    /\ lastOp' = Op("touchstart.whisker", i, pt, 0, FALSE)
    /\ UNCHANGED <<lifecycleVars, dragVars, deleteVars, whisker, handleVars, now, prevTap,
                   sampled, roundTrip, hostVars, clickVars>>

\* clearTimeout(longPressTimer); longPressTimer = null, in the closure b
ClearLongPress(b) == {t \in longPressTimers : t.id # longPress[b].timer}

\* touchmove.whisker: the pointer is more than 3 px from the start on an axis
MovedBeyondSlop(startPos, pt) ==
    Abs(pt[1] - startPos[1]) > LongPressSlop \/ Abs(pt[2] - startPos[2]) > LongPressSlop

\* touchmove.whisker on the handle of the k-th touch, which moves to pt
\* (history of the touch: where it went down, and whether it has been more
\* than 3 px from there)
TouchMoveWhisker(k, pt) ==
    /\ steps > 0
    /\ k \in 1 .. Len(touches)
    /\ steps' = steps - 1
    /\ touches' = [touches EXCEPT
                      ![k].pt = pt,
                      ![k].slipped = @ \/ MovedBeyondSlop(touches[k].start, pt)]
    /\ LET b == touches[k].batch
       IN IF /\ longPress[b].timer # 0
             /\ longPress[b].hasPos
             /\ MovedBeyondSlop(longPress[b].startPos, touches'[1].pt)
          THEN /\ longPressTimers' = ClearLongPress(b)
               /\ longPress' = [longPress EXCEPT ![b].timer = 0]
          ELSE UNCHANGED <<longPress, longPressTimers>>
    /\ lastOp' = Op("touchmove.whisker", touches[k].idx, pt, 0, FALSE)
    /\ UNCHANGED <<lifecycleVars, dragVars, deleteVars, whisker, mobileWhisker, handleVars,
                   now, prevTap, sampled, roundTrip, hostVars, clickVars>>

\* touchend.whisker on the handle of the k-th touch, which goes up
TouchEndWhisker(k) ==
    /\ steps > 0
    /\ k \in 1 .. Len(touches)
    /\ steps' = steps - 1
    /\ touches' = SubSeq(touches, 1, k - 1) \o SubSeq(touches, k + 1, Len(touches))
    /\ LET b == touches[k].batch
           idx == touches[k].idx
       IN /\ longPressTimers' = IF longPress[b].timer # 0 THEN ClearLongPress(b)
                                 ELSE longPressTimers
          /\ longPress' = [longPress EXCEPT ![b] = NoLongPress]
          /\ mobileWhisker' =
                IF IsElement(idx, touches[k].born) /\ handles[idx].selected
                THEN StartMobileWhiskerTimeout(b, idx, touches[k].born)
                ELSE mobileWhisker
          /\ lastOp' = Op("touchend.whisker", idx, touches[k].pt, 0, FALSE)
    /\ UNCHANGED <<lifecycleVars, dragVars, deleteVars, whisker, handleVars, now, prevTap,
                   sampled, roundTrip, hostVars, clickVars>>

\* the 500 ms timeout of touchstart.whisker: every handle's secondary controls
\* are hidden, and those of the pressed handle shown if they were hidden
LongPressTimeout(t) ==
    /\ t \in longPressTimers
    /\ now >= t.due
    /\ LET wasSelected == IsElement(t.idx, t.born) /\ handles[t.idx].selected
       IN /\ handles' = [i \in DOMAIN handles |->
                            IF handles[i].present
                            THEN [handles[i] EXCEPT
                                    !.selected = (i = t.idx /\ IsElement(t.idx, t.born)
                                                  /\ ~wasSelected)]
                            ELSE handles[i]]
          /\ mobileWhisker' = IF wasSelected THEN mobileWhisker
                              ELSE StartMobileWhiskerTimeout(t.batch, t.idx, t.born)
    /\ longPress' = [longPress EXCEPT ![t.batch].timer = 0]
    /\ longPressTimers' = longPressTimers \ {t}
    /\ lastOp' = Op("longPress", t.idx, NoPoint, 0, FALSE)
    /\ UNCHANGED <<lifecycleVars, dragVars, deleteVars, whisker, touches, lastTap, now,
                   prevTap, sampled, roundTrip, hostVars, steps, clickVars>>

\* the 3000 ms timeout of startMobileWhiskerTimeout in the closure b
MobileWhiskerTimeout(b) ==
    /\ mobileWhisker[b].set
    /\ now >= mobileWhisker[b].due
    /\ mobileWhisker' = [mobileWhisker EXCEPT ![b] = NoTimeout]
    /\ handles' = IF IsElement(mobileWhisker[b].idx, mobileWhisker[b].born)
                  THEN [handles EXCEPT ![mobileWhisker[b].idx].selected = FALSE]
                  ELSE handles
    /\ lastOp' = Op("mobileWhiskerTimeout", mobileWhisker[b].idx, NoPoint, 0, FALSE)
    /\ UNCHANGED <<lifecycleVars, dragVars, deleteVars, whisker, longPress, longPressTimers,
                   touches, lastTap, now, prevTap, sampled, roundTrip, hostVars, steps, clickVars>>

\* the times at which a pending timeout of the handles is due
PendingDues ==
    {t.due : t \in longPressTimers}
        \cup {mobileWhisker[b].due : b \in {c \in Batches : mobileWhisker[c].set}}
        \cup {clickTimer[b].due : b \in {c \in Batches : clickTimer[c].set}}
        \cup {t.due : t \in whiskerFadeTimers}

\* the clock advances by d ms while a timeout is pending, not beyond the time
\* at which the next one is due
Elapse(d) ==
    /\ d > 0
    /\ PendingDues # {}
    /\ \A due \in PendingDues : now + d <= due
    /\ now' = now + d
    /\ lastOp' = Op("elapse", 0, NoPoint, 0, FALSE)
    /\ UNCHANGED <<moduleVars, prevTap, sampled, roundTrip, hostVars, steps>>

\* -------------------------------------------------------------------------
\* Desktop: whisker fade timers, hover, single click to toggle whiskers
\* -------------------------------------------------------------------------
\* the longest time between the two clicks of a double click (the setting of
\* the operating system; 500 ms is the default of Windows)
DblClickInterval == 500

\* cancelWhiskerFadeTimer(handle) in the closure b
CancelWhiskerFadeTimer(b, born) ==
    {t \in whiskerFadeTimers : ~(t.batch = b /\ t.born = born)}

\* startWhiskerFadeTimer(handle) in the closure b: the pending timeout of the
\* element, if any, is cleared and a new one is set
StartWhiskerFadeTimer(b, idx, born) ==
    CancelWhiskerFadeTimer(b, born)
        \cup {[batch |-> b, idx |-> idx, born |-> born, due |-> now + WhiskerFadeDelay]}

\* the pointer is over no handle of the document
OverNoHandle ==
    \A j \in DOMAIN handles : ~(handles[j].present /\ handles[j].born = hoveredHandle)

\* mouseenter on handle i
MouseEnter(i) ==
    /\ steps > 0
    /\ handles[i].present
    /\ OverNoHandle
    /\ steps' = steps - 1
    /\ whiskerFadeTimers' = CancelWhiskerFadeTimer(handles[i].batch, handles[i].born)
    /\ hoveredHandle' = handles[i].born
    /\ lastOp' = Op("mouseenter", i, NoPoint, 0, FALSE)
    /\ UNCHANGED <<lifecycleVars, dragVars, deleteVars, whisker, pressVars, handleVars,
                   clickTimer, clickRun, now, prevTap, sampled, roundTrip, hostVars>>

\* mouseleave on handle i, which the pointer was over
MouseLeave(i) ==
    /\ steps > 0
    /\ handles[i].present
    /\ hoveredHandle = handles[i].born
    /\ steps' = steps - 1
    /\ whiskerFadeTimers' =
          IF handles[i].selected
          THEN StartWhiskerFadeTimer(handles[i].batch, i, handles[i].born)
          ELSE whiskerFadeTimers
    /\ hoveredHandle' = 0
    /\ lastOp' = Op("mouseleave", i, NoPoint, 0, FALSE)
    /\ UNCHANGED <<lifecycleVars, dragVars, deleteVars, whisker, pressVars, handleVars,
                   clickTimer, clickRun, now, prevTap, sampled, roundTrip, hostVars>>

\* the 2000 ms timeout of startWhiskerFadeTimer: the secondary controls of the
\* element are hidden unless the pointer is over it
WhiskerFadeTimeout(t) ==
    /\ t \in whiskerFadeTimers
    /\ now >= t.due
    /\ whiskerFadeTimers' = whiskerFadeTimers \ {t}
    /\ handles' = IF (hoveredHandle = 0 \/ hoveredHandle # t.born)
                      /\ IsElement(t.idx, t.born)
                  THEN [handles EXCEPT ![t.idx].selected = FALSE]
                  ELSE handles
    /\ lastOp' = Op("whiskerFadeTimeout", t.idx, NoPoint, 0, FALSE)
    /\ UNCHANGED <<lifecycleVars, dragVars, deleteVars, whisker, pressVars, lastTap,
                   clickTimer, hoveredHandle, clickRun, now, prevTap, sampled, roundTrip,
                   hostVars, steps>>

\* the browser dispatches click on a handle after the mouseup of a gesture
\* whose mousedown was on the same element
ClickFollowsUp(i) ==
    /\ lastOp.name = "up"
    /\ sessions # <<>>
    /\ sessions[Len(sessions)].elem = handles[i].born
    /\ ~sessions[Len(sessions)].live

\* the clicks in a row on one element, each within the double-click interval
\* of the one before
ClicksInRow(born) ==
    IF clickRun.born = born /\ clickRun.count = 1 /\ now - clickRun.at <= DblClickInterval
    THEN 2
    ELSE 1

\* if (wasDragged) { wasDragged = false; return; }
ClickAfterDrag(dragged) == dragged

\* click.whisker on handle i
ClickWhisker(i) ==
    /\ handles[i].present
    /\ ClickFollowsUp(i)
    /\ IF ClickAfterDrag(wasDragged)
       THEN /\ wasDragged' = FALSE
            /\ UNCHANGED clickTimer
       ELSE /\ clickTimer' = [clickTimer EXCEPT ![handles[i].batch] =
                                 [set |-> TRUE, idx |-> i, born |-> handles[i].born,
                                  due |-> now + ClickDelay]]
            /\ UNCHANGED wasDragged
    /\ clickRun' = [born |-> handles[i].born, count |-> ClicksInRow(handles[i].born),
                    at |-> now,
                    shown |-> IF ClicksInRow(handles[i].born) = 2 THEN clickRun.shown
                              ELSE handles[i].selected]
    /\ lastOp' = Op("click", i, NoPoint, 0, FALSE)
    /\ UNCHANGED <<lifecycleVars, isDragging, pendingFrame, frames, sessions,
                   dragEndTimers, deleteVars, whisker, pressVars, handleVars,
                   whiskerFadeTimers, hoveredHandle, now, prevTap, sampled, roundTrip,
                   hostVars, steps>>

\* dblclick on handle i, after the second click of a double click: the
\* listener of bindHandleEvents cycles the type and dblclick.whisker clears
\* clickTimer
DblClickWhisker(i) ==
    /\ handles[i].present
    /\ lastOp.name = "click"
    /\ clickRun.born = handles[i].born
    /\ clickRun.count = 2
    /\ CycleFilterType(i, "dblclick")
    /\ clickTimer' = [clickTimer EXCEPT ![handles[i].batch] = NoTimeout]
    /\ clickRun' = NoClickRun
    /\ UNCHANGED <<lifecycleVars, dragVars, deleteVars, whisker, pressVars, handleVars,
                   whiskerFadeTimers, hoveredHandle, now, prevTap, sampled, roundTrip,
                   bands, phones, eqPhoneSelect, steps>>

\* the 250 ms timeout of click.whisker in the closure b: the secondary
\* controls of the clicked element are toggled
ClickTimeout(b) ==
    /\ clickTimer[b].set
    /\ now >= clickTimer[b].due
    /\ clickTimer' = [clickTimer EXCEPT ![b] = NoTimeout]
    /\ handles' = IF IsElement(clickTimer[b].idx, clickTimer[b].born)
                  THEN [handles EXCEPT ![clickTimer[b].idx].selected = ~@]
                  ELSE handles
    /\ whiskerFadeTimers' = CancelWhiskerFadeTimer(b, clickTimer[b].born)
    /\ lastOp' = Op("clickTimeout", clickTimer[b].idx, NoPoint, 0, FALSE)
    /\ UNCHANGED <<lifecycleVars, dragVars, deleteVars, whisker, pressVars, lastTap,
                   hoveredHandle, clickRun, now, prevTap, sampled, roundTrip, hostVars,
                   steps>>

\* -------------------------------------------------------------------------
\* Whisker drag to adjust Q
\* -------------------------------------------------------------------------
Sides == {"left", "right"}

\* the Q rounded to 0.1
WhiskerQAtCoarse(side, dfreq, edgeNum, edgeDen) ==
    LET freq == IF dfreq = 0 \/ dfreq = NaN THEN 10 * WhiskerFreqDefault ELSE dfreq
        below == edgeNum < 10 * FreqMin * edgeDen
        above == edgeNum > 10 * FreqMax * edgeDen
        cn == IF below THEN 10 * FreqMin ELSE IF above THEN 10 * FreqMax ELSE edgeNum
        cd == IF below \/ above THEN 1 ELSE edgeDen
        g == GCD(cn, freq * cd)
        hi == Max(cn, freq * cd) \div g
        lo == Min(cn, freq * cd) \div g
    IN IF (IF side = "left" THEN freq * cd <= cn ELSE cn <= freq * cd) THEN NaN
       ELSE IF hi >= 11 * lo THEN QMin
       ELSE Clamp(QMin, QMax, 10 * MathRound(10 * hi * lo, hi * hi - lo * lo))

\* the "drag" handler of whiskerDrag(side): the Q it stores, or NaN when the
\* handler returns before the write.  dfreq is d.freq, edgeNum / edgeDen the
\* frequency scales.x.invert gives for the pointer, which the handler clamps
\* to [20, 20000] Hz.  With the edge e and the centre f in the same unit,
\* 1 / (2 sinh(log2(fHigh / fLow) ln 2 / 2)) is e f / |e^2 - f^2|; the quotient
\* is taken after cancelling the common factor of e and f, and is below 0.1
\* (so the clamp gives 0.1) once one is 11 times the other.
WhiskerQAt(side, dfreq, edgeNum, edgeDen) ==
    LET freq == IF dfreq = 0 \/ dfreq = NaN THEN 10 * WhiskerFreqDefault ELSE dfreq
        below == edgeNum < 10 * FreqMin * edgeDen
        above == edgeNum > 10 * FreqMax * edgeDen
        cn == IF below THEN 10 * FreqMin ELSE IF above THEN 10 * FreqMax ELSE edgeNum
        cd == IF below \/ above THEN 1 ELSE edgeDen
        degenerate == IF side = "left" THEN freq * cd <= cn
                      ELSE cn <= freq * cd
        g == GCD(cn, freq * cd)
        hi == Max(cn, freq * cd) \div g
        lo == Min(cn, freq * cd) \div g
    IN IF degenerate THEN NaN
       ELSE IF hi >= 11 * lo THEN QMin
       ELSE Clamp(QMin, QMax, MathRound(100 * hi * lo, hi * hi - lo * lo))

\* the handler without the returns of lines 598 and 601: the clamp gives 0.1
WhiskerQUnguarded(side, dfreq, px) ==
    LET q == WhiskerQAt(side, dfreq, XInvert(px), 1)
    IN IF q = NaN THEN QMin ELSE q

\* the handler with the pointer at column px = d3.event.x + pxCenter
WhiskerQ(side, dfreq, px) == WhiskerQAt(side, dfreq, XInvert(px), 1)

RECURSIVE SqrtIn(_, _, _)
\* the square root of n, which is a perfect square between lo^2 and hi^2
SqrtIn(n, lo, hi) ==
    IF lo >= hi THEN lo
    ELSE LET mid == (lo + hi) \div 2
         IN IF mid * mid >= n THEN SqrtIn(n, lo, mid) ELSE SqrtIn(n, mid + 1, hi)

\* updateEQHandles, whisker span of a filter with the Q qn / qd:
\* bwOctaves = 2 asinh(1 / (2 q)) / ln 2, fLow = freq / 2^(bwOctaves / 2) and
\* fHigh = freq * 2^(bwOctaves / 2).  2^(bwOctaves / 2) is
\* 1 / (2 q) + sqrt(1 / (4 q^2) + 1) = (qd + sqrt(qd^2 + 4 qn^2)) / (2 qn), which is
\* taken for the values of Q that make the root an integer.
WhiskerSpan(freq, qn, qd) ==
    LET rn == qd + SqrtIn(qd * qd + 4 * qn * qn, 0, qd + 2 * qn)
        rd == 2 * qn
    IN [lowNum |-> freq * rd, lowDen |-> rn, highNum |-> freq * rn, highDen |-> rd]

WhiskerStoreWithGain(f, newQ) == [f EXCEPT !.q = newQ, !.gain = 0, !.wrote = @ \cup {"q"}]

\* filterInputs.q[idx].value = newQ
WhiskerStore(f, newQ) == [f EXCEPT !.q = newQ, !.wrote = @ \cup {"q"}]

\* "start" of the d3.drag gesture on the whisker end of handle i; the gesture
\* keeps the datum d of the circle.  drawnQ is the Q from which the "drag"
\* handler last set the whisker line, the whisker ends and the radius of the
\* outer circle, NaN while they are as updateEQHandles drew them.
WhiskerStart(i, side) ==
    /\ steps > 0
    /\ handles[i].present
    /\ ~whisker.active
    /\ steps' = steps - 1
    /\ whisker' = [active |-> TRUE, idx |-> i, side |-> side, freq |-> handles[i].freq,
                   drawnQ |-> NaN]
    /\ mobileWhisker' = CancelMobileWhiskerTimeout(handles[i].batch)
    /\ whiskerFadeTimers' = CancelWhiskerFadeTimer(handles[i].batch, handles[i].born)
    /\ lastOp' = Op("whiskerStart", i, NoPoint, 0, FALSE)
    /\ UNCHANGED <<lifecycleVars, dragVars, deleteVars, longPress, longPressTimers,
                   touches, handleVars, now, prevTap, sampled, roundTrip,
                   hostVars, clickTimer, hoveredHandle, clickRun>>

\* "drag" of the gesture with the pointer at column px
WhiskerMove(px) ==
    /\ steps > 0
    /\ whisker.active
    /\ steps' = steps - 1
    /\ LET newQ == WhiskerQ(whisker.side, whisker.freq, px)
           idx == whisker.idx
       IN IF newQ = NaN
          THEN /\ UNCHANGED <<filters, whisker>>
               /\ lastOp' = Op("whiskerDrag", idx, <<px, 0>>, 0, FALSE)
          ELSE IF idx >= Len(filters)
          THEN /\ UNCHANGED <<filters, whisker>>
               /\ lastOp' = Op("whiskerDrag", idx, <<px, 0>>, 0, TRUE)
          ELSE /\ filters' = [filters EXCEPT ![idx + 1] = WhiskerStore(@, newQ)]
               /\ whisker' = [whisker EXCEPT !.drawnQ = newQ]
               /\ lastOp' = Op("whiskerDrag", idx, <<px, 0>>, 0, FALSE)
    /\ UNCHANGED <<lifecycleVars, dragVars, deleteVars, pressVars, clickVars, handleVars,
                   now, prevTap, sampled, roundTrip, bands, phones, eqPhoneSelect>>

\* "end" of the gesture
WhiskerEnd ==
    /\ steps > 0
    /\ whisker.active
    /\ steps' = steps - 1
    /\ whisker' = NoWhisker
    /\ mobileWhisker' =
          IF handles[whisker.idx].present /\ handles[whisker.idx].selected
          THEN StartMobileWhiskerTimeout(handles[whisker.idx].batch, whisker.idx,
                                         handles[whisker.idx].born)
          ELSE mobileWhisker
    /\ whiskerFadeTimers' =
          IF handles[whisker.idx].present /\ handles[whisker.idx].selected
          THEN StartWhiskerFadeTimer(handles[whisker.idx].batch, whisker.idx,
                                     handles[whisker.idx].born)
          ELSE whiskerFadeTimers
    /\ lastOp' = Op("whiskerEnd", whisker.idx, NoPoint, 1, FALSE)
    /\ UNCHANGED <<lifecycleVars, dragVars, deleteVars, longPress, longPressTimers,
                   touches, handleVars, now, prevTap, sampled, roundTrip,
                   hostVars, clickTimer, hoveredHandle, clickRun>>

\* -------------------------------------------------------------------------
\* Delete button
\* -------------------------------------------------------------------------
\* deleteFilter(d): the rows and the band count it leaves
DeleteRows(rows, n, idx) ==
    HostSetFilters(HostSetBands(rows, Max(n - 1, 1)), Splice1(rows, idx))
DeleteBands(n) == Max(n - 1, 1)

\* click or touchend on the delete button of handle i
DeleteFilter(i) ==
    /\ steps > 0
    /\ handles[i].present
    /\ steps' = steps - 1
    /\ justDeletedFilter' = TRUE
    /\ deleteTimers' = deleteTimers + 1
    /\ filters' = DeleteRows(filters, bands, i)
    /\ bands' = DeleteBands(bands)
    /\ lastOp' = Op("delete", i, NoPoint, 1, FALSE)
    /\ UNCHANGED <<lifecycleVars, dragVars, whisker, pressVars, handleVars, now, prevTap, sampled, roundTrip, phones,
                   eqPhoneSelect, clickVars>>

\* the 100 ms timeout of deleteFilter
DeleteTimeout ==
    /\ deleteTimers > 0
    /\ deleteTimers' = deleteTimers - 1
    /\ justDeletedFilter' = FALSE
    /\ lastOp' = Op("deleteTimeout", 0, NoPoint, 0, FALSE)
    /\ UNCHANGED <<lifecycleVars, dragVars, whisker, pressVars, handleVars, now, prevTap, sampled, roundTrip, hostVars,
                   steps, clickVars>>

\* -------------------------------------------------------------------------
\* Graph Click to Create Filter
\* -------------------------------------------------------------------------
\* the option the click selects when none is selected: the first phone, if any
ClickPhoneSelect(sel) == IF sel = 0 /\ Len(phones) >= 1 THEN 1 ELSE sel

Unset(f) == f.freq = NaN \/ f.freq = 0

ClickSlotAppend(rows, n) == IF n < BandsMax THEN n ELSE -1

ClickSlotUnbounded(rows, n) ==
    LET idx == FindIndex({i \in Indices(rows) : Unset(At(rows, i))})
    IN IF idx # -1 THEN idx ELSE n

\* the index the new filter is written to: the first unset row, else a new
\* row when the host allows one more band, else -1
ClickSlot(rows, n) ==
    LET idx == FindIndex({i \in Indices(rows) : Unset(At(rows, i))})
    IN IF idx # -1 THEN idx
       ELSE IF n < BandsMax THEN n
       ELSE -1

\* handleGraphClick(clientX, clientY), registered on the interaction rectangle
\* by enable and removed by disable
GraphClick(pt) ==
    /\ steps > 0
    /\ enabled
    /\ steps' = steps - 1
    /\ IF ~enabled \/ isDragging \/ justDeletedFilter \/ ~InsidePlot(pt)
       THEN /\ UNCHANGED <<handleVars, hostVars>>
            /\ lastOp' = Op("click", -1, pt, 0, FALSE)
       ELSE
         LET freq == ClickFreq(pt[1])
             targetY == YInvert(pt[2])
             sel == ClickPhoneSelect(eqPhoneSelect)
             curveY == SamplePhoneCurveAt(GetEQPhoneObj(sel), freq)
             gain == ClickGain(targetY, curveY)
             idx == ClickSlot(filters, bands)
             rows == IF idx = bands THEN HostSetBands(filters, bands + 1) ELSE filters
         IN /\ eqPhoneSelect' = sel
            /\ UNCHANGED phones
            /\ IF curveY.kind = "throw"
               THEN /\ UNCHANGED <<handleVars, filters, bands>>
                    /\ lastOp' = Op("click", -1, pt, 0, TRUE)
               ELSE IF idx = -1
               THEN /\ UNCHANGED <<handleVars, filters, bands>>
                    /\ lastOp' = Op("click", -1, pt, 0, FALSE)
               ELSE IF idx >= Len(rows)
               THEN /\ UNCHANGED <<handleVars, filters>>
                    /\ bands' = IF idx = bands THEN bands + 1 ELSE bands
                    /\ lastOp' = Op("click", -1, pt, 0, TRUE)
               ELSE /\ filters' = [rows EXCEPT ![idx + 1] =
                                      [Filter(TRUE, "PK", freq, gain, QDefault)
                                         EXCEPT !.wrote = {"freq", "gain", "q"}]]
                    /\ bands' = IF idx = bands THEN bands + 1 ELSE bands
                    /\ handles' = UpdateEQHandles(handles, TRUE, filters', sel)
                    /\ lastTap' = TapsAfterUpdate(handles, TRUE, filters')
                    /\ lastOp' = Op("click", idx, pt, 1, FALSE)
    /\ UNCHANGED <<lifecycleVars, dragVars, deleteVars, whisker, pressVars, now, prevTap, sampled, roundTrip, clickVars>>

Next ==
    \/ InitModule
    \/ Enable
    \/ Disable
    \/ UpdateHandles
    \/ \E i \in 0 .. (BandsMax - 1) : MouseDown(i, HandlePoint)
    \/ \E pt \in MovePoints : DocMove(pt)
    \/ RunFrame
    \/ DocUp
    \/ DragEndTimeout
    \/ \E i \in 0 .. (BandsMax - 1) : DblClick(i)
    \/ \E i \in 0 .. (BandsMax - 1) : TouchStart(i, HandlePoint)
    \/ \E d \in TickSet : Tick(d)
    \/ \E i \in 0 .. (BandsMax - 1), up \in BOOLEAN, shift \in BOOLEAN : Wheel(i, up, shift)
    \/ \E i \in 0 .. (BandsMax - 1), side \in Sides : WhiskerStart(i, side)
    \/ \E px \in WhiskerColumns : WhiskerMove(px)
    \/ WhiskerEnd
    \/ \E i \in 0 .. (BandsMax - 1) : DeleteFilter(i)
    \/ DeleteTimeout
    \/ \E pt \in ClickPoints : GraphClick(pt)

Spec == Init /\ [][Next]_vars

\* -------------------------------------------------------------------------
\* Handle drags alone, explored deeper: one host configuration, the lifecycle
\* calls and the drag sessions
\* -------------------------------------------------------------------------
InitDrag ==
    /\ initialized = FALSE
    /\ enabled = FALSE
    /\ initListeners = NoInitListeners
    /\ listeners = NoListeners
    /\ isDragging = FALSE
    /\ wasDragged = FALSE
    /\ pendingFrame = NoFrame
    /\ frames = <<>>
    /\ justDeletedFilter = FALSE
    /\ sessions = <<>>
    /\ dragEndTimers = 0
    /\ deleteTimers = 0
    /\ whisker = NoWhisker
    /\ longPress = [b \in Batches |-> NoLongPress]
    /\ longPressTimers = {}
    /\ mobileWhisker = [b \in Batches |-> NoTimeout]
    /\ touches = <<>>
    /\ handles = [i \in 0 .. (BandsMax - 1) |-> NoHandle]
    /\ lastTap = [b \in Batches |-> NoTap]
    /\ now = StartTime
    /\ prevTap = NoPrevTap
    /\ sampled = NoSample
    /\ roundTrip = NoRoundTrip
    /\ filters = <<Filter(TRUE, "PK", 1000, 0, 123), Filter(TRUE, "HSQ", 20000, -300, NaN)>>
    /\ bands = Len(filters)
    /\ phones = <<PhoneA>>
    /\ eqPhoneSelect \in 0 .. 1
    /\ steps = MaxDragSteps
    /\ lastOp = Op("none", 0, NoPoint, 0, FALSE)
    /\ clickTimer = [b \in Batches |-> NoTimeout]
    /\ whiskerFadeTimers = {}
    /\ hoveredHandle = 0
    /\ clickRun = NoClickRun

NextDrag ==
    \/ InitModule
    \/ Enable
    \/ Disable
    \/ \E i \in 0 .. (BandsMax - 1) : MouseDown(i, HandlePoint)
    \/ \E pt \in MovePoints : DocMove(pt)
    \/ RunFrame
    \/ DocUp
    \/ DragEndTimeout

SpecDrag == InitDrag /\ [][NextDrag]_vars

\* -------------------------------------------------------------------------
\* Touch taps alone, explored deeper: one host configuration whose handles
\* all come from one updateEQHandles call, taps, double-clicks and the clock
\* -------------------------------------------------------------------------
InitTouch ==
    /\ initialized = FALSE
    /\ enabled = FALSE
    /\ initListeners = NoInitListeners
    /\ listeners = NoListeners
    /\ isDragging = FALSE
    /\ wasDragged = FALSE
    /\ pendingFrame = NoFrame
    /\ frames = <<>>
    /\ justDeletedFilter = FALSE
    /\ sessions = <<>>
    /\ dragEndTimers = 0
    /\ deleteTimers = 0
    /\ whisker = NoWhisker
    /\ longPress = [b \in Batches |-> NoLongPress]
    /\ longPressTimers = {}
    /\ mobileWhisker = [b \in Batches |-> NoTimeout]
    /\ touches = <<>>
    /\ handles = [i \in 0 .. (BandsMax - 1) |-> NoHandle]
    /\ lastTap = [b \in Batches |-> NoTap]
    /\ now = StartTime
    /\ prevTap = NoPrevTap
    /\ sampled = NoSample
    /\ roundTrip = NoRoundTrip
    /\ filters = <<Filter(TRUE, "PK", 1000, 0, 123), Filter(TRUE, "HSQ", 20000, -300, NaN)>>
    /\ bands = Len(filters)
    /\ phones = <<PhoneA>>
    /\ eqPhoneSelect = 1
    /\ steps = MaxTouchSteps
    /\ lastOp = Op("none", 0, NoPoint, 0, FALSE)
    /\ clickTimer = [b \in Batches |-> NoTimeout]
    /\ whiskerFadeTimers = {}
    /\ hoveredHandle = 0
    /\ clickRun = NoClickRun

NextTouch ==
    \/ InitModule
    \/ Enable
    \/ \E i \in 0 .. (BandsMax - 1) : TouchStart(i, HandlePoint)
    \/ \E d \in TickSet : Tick(d)
    \/ DocUp
    \/ DragEndTimeout
    \/ \E i \in 0 .. (BandsMax - 1) : DblClick(i)

SpecTouch == InitTouch /\ [][NextTouch]_vars

\* -------------------------------------------------------------------------
\* The wheel alone, over every Q the host can hold at 0.01 resolution and a
\* Q field that does not parse: two rows with the same Q
\* -------------------------------------------------------------------------
HostQs == (QMin .. QMax) \cup {NaN}

InitWheel ==
    /\ initialized = FALSE
    /\ enabled = FALSE
    /\ initListeners = NoInitListeners
    /\ listeners = NoListeners
    /\ isDragging = FALSE
    /\ wasDragged = FALSE
    /\ pendingFrame = NoFrame
    /\ frames = <<>>
    /\ justDeletedFilter = FALSE
    /\ sessions = <<>>
    /\ dragEndTimers = 0
    /\ deleteTimers = 0
    /\ whisker = NoWhisker
    /\ longPress = [b \in Batches |-> NoLongPress]
    /\ longPressTimers = {}
    /\ mobileWhisker = [b \in Batches |-> NoTimeout]
    /\ touches = <<>>
    /\ handles = [i \in 0 .. (BandsMax - 1) |-> NoHandle]
    /\ lastTap = [b \in Batches |-> NoTap]
    /\ now = StartTime
    /\ prevTap = NoPrevTap
    /\ sampled = NoSample
    /\ roundTrip = NoRoundTrip
    /\ \E q \in HostQs :
          filters = <<Filter(TRUE, "PK", 1000, 0, q), Filter(TRUE, "LSQ", 20000, 0, q)>>
    /\ bands = Len(filters)
    /\ phones = <<>>
    /\ eqPhoneSelect = 0
    /\ steps = MaxWheelSteps
    /\ lastOp = Op("none", 0, NoPoint, 0, FALSE)
    /\ clickTimer = [b \in Batches |-> NoTimeout]
    /\ whiskerFadeTimers = {}
    /\ hoveredHandle = 0
    /\ clickRun = NoClickRun

NextWheel ==
    \/ InitModule
    \/ Enable
    \/ \E i \in 0 .. (BandsMax - 1), up \in BOOLEAN, shift \in BOOLEAN : Wheel(i, up, shift)

SpecWheel == InitWheel /\ [][NextWheel]_vars

\* -------------------------------------------------------------------------
\* The handle render alone, over rows the user edits in the host's form:
\* enabled and disabled rows, with a frequency above 0, of 0 and below 0
\* -------------------------------------------------------------------------
HostRows ==
    { BlankFilter,
      Filter(TRUE, "PK", 1000, 0, 100),
      Filter(FALSE, "LSQ", 5000, 100, 70),
      Filter(TRUE, "HSQ", -500, 0, 100) }

\* the user edits row i of the host's form
HostEditRow(i, f) ==
    /\ steps > 0
    /\ i < Len(filters)
    /\ steps' = steps - 1
    /\ filters' = [filters EXCEPT ![i + 1] = f]
    /\ lastOp' = Op("hostEdit", i, NoPoint, 0, FALSE)
    /\ UNCHANGED <<moduleVars, now, prevTap, sampled, roundTrip, bands, phones, eqPhoneSelect>>

InitHandles ==
    /\ initialized = FALSE
    /\ enabled = FALSE
    /\ initListeners = NoInitListeners
    /\ listeners = NoListeners
    /\ isDragging = FALSE
    /\ wasDragged = FALSE
    /\ pendingFrame = NoFrame
    /\ frames = <<>>
    /\ justDeletedFilter = FALSE
    /\ sessions = <<>>
    /\ dragEndTimers = 0
    /\ deleteTimers = 0
    /\ whisker = NoWhisker
    /\ longPress = [b \in Batches |-> NoLongPress]
    /\ longPressTimers = {}
    /\ mobileWhisker = [b \in Batches |-> NoTimeout]
    /\ touches = <<>>
    /\ handles = [i \in 0 .. (BandsMax - 1) |-> NoHandle]
    /\ lastTap = [b \in Batches |-> NoTap]
    /\ now = StartTime
    /\ prevTap = NoPrevTap
    /\ sampled = NoSample
    /\ roundTrip = NoRoundTrip
    /\ filters \in {<<f>> : f \in HostRows} \cup {<<f, g>> : f \in HostRows, g \in HostRows}
    /\ bands = Len(filters)
    /\ phones = <<PhoneA>>
    /\ eqPhoneSelect = 1
    /\ steps = MaxHandleSteps
    /\ lastOp = Op("none", 0, NoPoint, 0, FALSE)
    /\ clickTimer = [b \in Batches |-> NoTimeout]
    /\ whiskerFadeTimers = {}
    /\ hoveredHandle = 0
    /\ clickRun = NoClickRun

NextHandles ==
    \/ InitModule
    \/ Enable
    \/ Disable
    \/ Destroy
    \/ UpdateHandles
    \/ \E i \in 0 .. (BandsMax - 1), f \in HostRows : HostEditRow(i, f)
    \/ \E i \in 0 .. (BandsMax - 1) : DeleteFilter(i)
    \/ DeleteTimeout

SpecHandles == InitHandles /\ [][NextHandles]_vars

\* -------------------------------------------------------------------------
\* The bandwidth conversion alone: the whisker span of a filter, and the Q the
\* whisker drag stores with the pointer at an end of that span
\* -------------------------------------------------------------------------
\* centre frequencies (20 Hz, 100 Hz, 1 kHz, 10 kHz, 20 kHz) and values of Q in
\* [0.1, 10] as fractions, those of the band edge ratios 3/2, 2, 3, 5, 10, 11/10,
\* 16/15, 5/4, 4/3 and 20/19
WhiskerCentres == {200, 1000, 10000, 100000, 200000}
WhiskerQs == {<<6, 5>>, <<2, 3>>, <<3, 8>>, <<5, 24>>, <<10, 99>>, <<110, 21>>,
              <<240, 31>>, <<20, 9>>, <<12, 7>>, <<380, 39>>}

\* the whisker end of the given side is dragged to the edge of the span
WhiskerRoundTrip(side) ==
    /\ steps > 0
    /\ steps' = steps - 1
    /\ LET span == WhiskerSpan(roundTrip.freq, roundTrip.q[1], roundTrip.q[2])
       IN roundTrip' =
             [roundTrip EXCEPT
                !.any = TRUE,
                !.side = side,
                !.newQ = IF side = "right"
                         THEN WhiskerQAt(side, roundTrip.freq, span.highNum, span.highDen)
                         ELSE WhiskerQAt(side, roundTrip.freq, span.lowNum, span.lowDen)]
    /\ lastOp' = Op("whiskerDrag", 0, NoPoint, 0, FALSE)
    /\ UNCHANGED <<moduleVars, now, prevTap, sampled, hostVars>>

InitWhisker ==
    /\ initialized = FALSE
    /\ enabled = FALSE
    /\ initListeners = NoInitListeners
    /\ listeners = NoListeners
    /\ isDragging = FALSE
    /\ wasDragged = FALSE
    /\ pendingFrame = NoFrame
    /\ frames = <<>>
    /\ justDeletedFilter = FALSE
    /\ sessions = <<>>
    /\ dragEndTimers = 0
    /\ deleteTimers = 0
    /\ whisker = NoWhisker
    /\ longPress = [b \in Batches |-> NoLongPress]
    /\ longPressTimers = {}
    /\ mobileWhisker = [b \in Batches |-> NoTimeout]
    /\ touches = <<>>
    /\ handles = [i \in 0 .. (BandsMax - 1) |-> NoHandle]
    /\ lastTap = [b \in Batches |-> NoTap]
    /\ now = StartTime
    /\ prevTap = NoPrevTap
    /\ sampled = NoSample
    /\ roundTrip \in {[NoRoundTrip EXCEPT !.freq = f, !.q = q] :
                          f \in WhiskerCentres, q \in WhiskerQs}
    /\ filters = <<BlankFilter>>
    /\ bands = 1
    /\ phones = <<>>
    /\ eqPhoneSelect = 0
    /\ steps = MaxWhiskerSteps
    /\ lastOp = Op("none", 0, NoPoint, 0, FALSE)
    /\ clickTimer = [b \in Batches |-> NoTimeout]
    /\ whiskerFadeTimers = {}
    /\ hoveredHandle = 0
    /\ clickRun = NoClickRun

NextWhisker == \E side \in Sides : WhiskerRoundTrip(side)

SpecWhisker == InitWhisker /\ [][NextWhisker]_vars

\* -------------------------------------------------------------------------
\* Long presses on the handles of two filters, with up to two touches down.
\* The listeners with the name "whisker" share no state with the listeners of
\* bindHandleEvents that the same events reach, which are left out here.
\* -------------------------------------------------------------------------
\* where a touch on a handle moves to: 3 px and 4 px from HandlePoint
PressMovePoints == {<<10, 13>>, <<14, 10>>}
\* a wait that ends before the next timeout is due
PartialWait == 200

InitPress ==
    /\ initialized = FALSE
    /\ enabled = FALSE
    /\ initListeners = NoInitListeners
    /\ listeners = NoListeners
    /\ isDragging = FALSE
    /\ wasDragged = FALSE
    /\ pendingFrame = NoFrame
    /\ frames = <<>>
    /\ justDeletedFilter = FALSE
    /\ sessions = <<>>
    /\ dragEndTimers = 0
    /\ deleteTimers = 0
    /\ whisker = NoWhisker
    /\ longPress = [b \in Batches |-> NoLongPress]
    /\ longPressTimers = {}
    /\ mobileWhisker = [b \in Batches |-> NoTimeout]
    /\ touches = <<>>
    /\ handles = [i \in 0 .. (BandsMax - 1) |-> NoHandle]
    /\ lastTap = [b \in Batches |-> NoTap]
    /\ now = StartTime
    /\ prevTap = NoPrevTap
    /\ sampled = NoSample
    /\ roundTrip = NoRoundTrip
    /\ filters = <<Filter(TRUE, "PK", 1000, 0, 100), Filter(TRUE, "HSQ", 20000, -300, 70)>>
    /\ bands = 2
    /\ phones = <<PhoneA>>
    /\ eqPhoneSelect = 1
    /\ steps = MaxPressSteps
    /\ lastOp = Op("none", 0, NoPoint, 0, FALSE)
    /\ clickTimer = [b \in Batches |-> NoTimeout]
    /\ whiskerFadeTimers = {}
    /\ hoveredHandle = 0
    /\ clickRun = NoClickRun

NextPress ==
    \/ InitModule
    \/ Enable
    \/ \E i \in 0 .. (BandsMax - 1) : TouchStartWhisker(i, HandlePoint)
    \/ \E k \in 1 .. MaxTouches, pt \in PressMovePoints : TouchMoveWhisker(k, pt)
    \/ \E k \in 1 .. MaxTouches : TouchEndWhisker(k)
    \/ \E t \in longPressTimers : LongPressTimeout(t)
    \/ \E b \in Batches : MobileWhiskerTimeout(b)
    \/ \E d \in {PartialWait} \cup {due - now : due \in PendingDues} : Elapse(d)

SpecPress == InitPress /\ [][NextPress]_vars

\* a timeout runs once it is due, and time passes while one is pending
SpecPressFair ==
    /\ SpecPress
    /\ WF_vars(\E t \in longPressTimers : LongPressTimeout(t))
    /\ WF_vars(\E b \in Batches : MobileWhiskerTimeout(b))
    /\ WF_vars(\E d \in {due - now : due \in PendingDues} : Elapse(d))

\* -------------------------------------------------------------------------
\* Mouse gestures, clicks and hover on the handles of two filters
\* -------------------------------------------------------------------------
\* where the pointer moves to during a gesture: 4 px and 5 px from HandlePoint
ClickMovePoints == {<<14, 10>>, <<13, 14>>}

\* the module after init() and enable(), with the handles of the two filters
\* rendered
InitClick ==
    /\ initialized = TRUE
    /\ enabled = TRUE
    /\ initListeners = InitListen(NoInitListeners)
    /\ listeners = ApplyToAll(NoListeners, DomListeners \cup RectListeners,
                              DomListeners, TRUE)
    /\ isDragging = FALSE
    /\ wasDragged = FALSE
    /\ pendingFrame = NoFrame
    /\ frames = <<>>
    /\ justDeletedFilter = FALSE
    /\ sessions = <<>>
    /\ dragEndTimers = 0
    /\ deleteTimers = 0
    /\ whisker = NoWhisker
    /\ longPress = [b \in Batches |-> NoLongPress]
    /\ longPressTimers = {}
    /\ mobileWhisker = [b \in Batches |-> NoTimeout]
    /\ touches = <<>>
    /\ lastTap = [b \in Batches |-> NoTap]
    /\ now = StartTime
    /\ prevTap = NoPrevTap
    /\ sampled = NoSample
    /\ roundTrip = NoRoundTrip
    /\ filters = <<Filter(TRUE, "PK", 1000, 0, 100), Filter(TRUE, "HSQ", 20000, -300, 70)>>
    /\ bands = 2
    /\ phones = <<PhoneA>>
    /\ eqPhoneSelect = 1
    /\ steps = MaxClickSteps
    /\ lastOp = Op("none", 0, NoPoint, 0, FALSE)
    /\ clickTimer = [b \in Batches |-> NoTimeout]
    /\ whiskerFadeTimers = {}
    /\ hoveredHandle = 0
    /\ clickRun = NoClickRun
    /\ handles = UpdateEQHandles([i \in 0 .. (BandsMax - 1) |-> NoHandle], TRUE,
                                 filters, eqPhoneSelect)

NextClick ==
    \/ \E i \in 0 .. (BandsMax - 1) : MouseEnter(i)
    \/ \E i \in 0 .. (BandsMax - 1) : MouseLeave(i)
    \/ \E i \in 0 .. (BandsMax - 1) : MouseDown(i, HandlePoint)
    \/ \E pt \in ClickMovePoints : DocMove(pt)
    \/ RunFrame
    \/ DocUp
    \/ DragEndTimeout
    \/ \E i \in 0 .. (BandsMax - 1) : ClickWhisker(i)
    \/ \E i \in 0 .. (BandsMax - 1) : DblClickWhisker(i)
    \/ \E b \in Batches : ClickTimeout(b)
    \/ \E t \in whiskerFadeTimers : WhiskerFadeTimeout(t)
    \/ \E d \in {due - now : due \in PendingDues} : Elapse(d)

SpecClick == InitClick /\ [][NextClick]_vars

\* -------------------------------------------------------------------------
\* Hover, clicks and whisker drags with a mouse on the handles of two filters
\* -------------------------------------------------------------------------
NextHover ==
    \/ \E i \in 0 .. (BandsMax - 1) : MouseEnter(i)
    \/ \E i \in 0 .. (BandsMax - 1) : MouseLeave(i)
    \/ \E i \in 0 .. (BandsMax - 1) : MouseDown(i, HandlePoint)
    \/ DocUp
    \/ DragEndTimeout
    \/ \E i \in 0 .. (BandsMax - 1) : ClickWhisker(i)
    \/ \E b \in Batches : ClickTimeout(b)
    \/ \E i \in 0 .. (BandsMax - 1), side \in Sides : WhiskerStart(i, side)
    \/ WhiskerEnd
    \/ \E t \in whiskerFadeTimers : WhiskerFadeTimeout(t)
    \/ \E b \in Batches : MobileWhiskerTimeout(b)
    \/ \E d \in {due - now : due \in PendingDues} : Elapse(d)

SpecHover == InitClick /\ [][NextHover]_vars

\* -------------------------------------------------------------------------
\* The sampler alone: every kind of device the host can hand over, sampled at
\* frequencies below, at, between and above the samples of its curve
\* -------------------------------------------------------------------------
SamplerPhones == {PhoneA, PhoneRaw, PhoneNoData, PhoneObject, PhoneEmpty, PhoneRawEmpty,
                  PhoneSingle, PhoneB, PhoneDup, PhoneShort}
SamplerFreqs == {100, 200, 5000, 10000, 15000, 200000, 250000}

\* samplePhoneCurveAt(getEQPhoneObj(), freq)
SampleAt(freq) ==
    /\ steps > 0
    /\ steps' = steps - 1
    /\ sampled' = [any |-> TRUE, freq |-> freq,
                   result |-> SamplePhoneCurveAt(GetEQPhoneObj(eqPhoneSelect), freq)]
    /\ lastOp' = Op("samplePhoneCurveAt", 0, NoPoint, 0, sampled'.result.kind = "throw")
    /\ UNCHANGED <<moduleVars, now, prevTap, roundTrip, hostVars>>

InitSampler ==
    /\ initialized = FALSE
    /\ enabled = FALSE
    /\ initListeners = NoInitListeners
    /\ listeners = NoListeners
    /\ isDragging = FALSE
    /\ wasDragged = FALSE
    /\ pendingFrame = NoFrame
    /\ frames = <<>>
    /\ justDeletedFilter = FALSE
    /\ sessions = <<>>
    /\ dragEndTimers = 0
    /\ deleteTimers = 0
    /\ whisker = NoWhisker
    /\ longPress = [b \in Batches |-> NoLongPress]
    /\ longPressTimers = {}
    /\ mobileWhisker = [b \in Batches |-> NoTimeout]
    /\ touches = <<>>
    /\ handles = [i \in 0 .. (BandsMax - 1) |-> NoHandle]
    /\ lastTap = [b \in Batches |-> NoTap]
    /\ now = StartTime
    /\ prevTap = NoPrevTap
    /\ sampled = NoSample
    /\ roundTrip = NoRoundTrip
    /\ filters = <<BlankFilter>>
    /\ bands = 1
    /\ phones \in {<<p>> : p \in SamplerPhones}
    /\ eqPhoneSelect \in 0 .. 1
    /\ steps = MaxSampleSteps
    /\ lastOp = Op("none", 0, NoPoint, 0, FALSE)
    /\ clickTimer = [b \in Batches |-> NoTimeout]
    /\ whiskerFadeTimers = {}
    /\ hoveredHandle = 0
    /\ clickRun = NoClickRun

NextSampler == \E freq \in SamplerFreqs : SampleAt(freq)

SpecSampler == InitSampler /\ [][NextSampler]_vars

\* -------------------------------------------------------------------------
\* Claims
\* -------------------------------------------------------------------------
SessionSet == {sessions[k] : k \in 1 .. Len(sessions)}

\* C1: a drag session whose pointer-moves all stay strictly less than 5 px
\* from the pointer-down position writes no filter parameter field and never
\* invokes applyEQ, up to and including its pointer-up.
C1_NoDragBelowThreshold ==
    \A s \in SessionSet : ~s.crossed => (s.writes = 0 /\ s.commits = 0)

\* a session that received a move, never 5 px from its start, and has ended
C1_Witness ==
    \E s \in SessionSet : s.seen /\ ~s.crossed /\ ~s.live

\* C2: once a pointer-move of a session is 5 px or more from the pointer-down
\* position the session stays a drag (a later move nearer than 5 px is still
\* handed to the frame when none is scheduled), applyEQ is not invoked for it
\* before its pointer-up, and is invoked exactly once at its pointer-up.
C2_Step ==
    /\ \A k \in 1 .. Len(sessions') :
          LET s == sessions'[k]
          IN /\ s.crossed => s.moved
             /\ s.live => s.commits = 0
             /\ (~s.live /\ s.crossed) => s.commits = 1
    /\ (lastOp'.name = "move" /\ steps' # steps /\ ~pendingFrame.set
          /\ \E k \in 1 .. Len(sessions') : sessions'[k].live /\ sessions'[k].crossed)
        => (pendingFrame'.set /\ <<pendingFrame'.cx, pendingFrame'.cy>> = lastOp'.pt)
    /\ (lastOp'.name = "up" /\ steps' # steps)
        => lastOp'.applied =
             Cardinality({k \in 1 .. Len(sessions) : sessions[k].live /\ sessions[k].crossed})
    /\ (lastOp'.name \in {"mousedown", "move", "frame", "dragEndTimeout"})
        => lastOp'.applied = 0

C2_DragIsCommitted == [][C2_Step]_vars

\* a session that crossed the threshold, came back within 5 px of its start,
\* and was committed at its pointer-up
C2_Witness ==
    \E s \in SessionSet : s.returned /\ ~s.live /\ s.commits = 1

RowSet == {filters[k] : k \in 1 .. Len(filters)}

C4_CycledType(t) == CASE t = "PK" -> "LSQ" [] t = "LSQ" -> "HSQ" [] t = "HSQ" -> "PK"

C4_Step ==
    (/\ steps' = steps - 1
     /\ lastOp'.name = "dblclick" \/ (lastOp'.name = "touchstart" /\ prevTap'.cycled)
     /\ lastOp'.idx < Len(filters))
    => /\ filters' = [filters EXCEPT ![lastOp'.idx + 1].type = C4_CycledType(@)]
       /\ bands' = bands
       /\ lastOp'.applied = 1
       /\ NextType(NextType(At(filters', lastOp'.idx).type)) = At(filters, lastOp'.idx).type

C4_TypeCycle == [][C4_Step]_vars

\* a double-tap has just turned an LSQ row into an HSQ row
C4_Witness ==
    /\ lastOp.name = "touchstart"
    /\ prevTap.cycled
    /\ lastOp.applied = 1
    /\ At(filters, lastOp.idx).type = "HSQ"
    /\ At(filters, lastOp.idx).freq = 1000

\* C5: a touchstart on the handle that also received the previous touchstart
\* cycles the type exactly when it comes less than 300 ms after that one and
\* that one did not itself cycle the type; otherwise, and for the first
\* touchstart of all, the rows stay as they are and applyEQ is not called.
C5_Step ==
    (/\ steps' = steps - 1
     /\ lastOp'.name = "touchstart"
     /\ prevTap.any => prevTap.idx = lastOp'.idx)
    => IF prevTap.any /\ now - prevTap.time < 300 /\ ~prevTap.cycled
       THEN /\ lastOp'.applied = 1
            /\ At(filters', lastOp'.idx).type = C4_CycledType(At(filters, lastOp'.idx).type)
       ELSE /\ lastOp'.applied = 0
            /\ filters' = filters

C5_DoubleTapWindow == [][C5_Step]_vars

\* a touchstart that followed a completed double-tap on the same handle and
\* left the type alone, after a touchstart that came 300 ms late
C5_Witness ==
    /\ prevTap.afterDouble
    /\ ~prevTap.cycled
    /\ now - StartTime >= 300
    /\ lastOp.name = "touchstart"

\* C6 as stated: one wheel tick on the handle of a row whose Q is q (1 for a
\* Q field that does not parse) stores q + 0.1 or q - 0.1 without the
\* modifier and q + 0.01 or q - 0.01 with it, clamped to [0.1, 10].
C6_Before == IF At(filters, lastOp'.idx).q = NaN THEN 100 ELSE At(filters, lastOp'.idx).q
C6_Target ==
    C6_Before + lastOp'.pt[1] * (IF lastOp'.pt[2] = 1 THEN -1 ELSE -10)
C6_Clamped(q) == IF q < 10 THEN 10 ELSE IF q > 1000 THEN 1000 ELSE q
C6_WheelStep ==
    /\ steps' = steps - 1
    /\ lastOp'.name = "wheel"
    /\ lastOp'.idx < Len(filters)
    /\ At(filters, lastOp'.idx).q \in (10 .. 1000) \cup {NaN}

C6_ExactStep ==
    [][C6_WheelStep => At(filters', lastOp'.idx).q = C6_Clamped(C6_Target)]_vars

\* C6: with the modifier a wheel tick stores q + 0.01 or q - 0.01; without it
\* the tick stores a multiple of 0.1 at most 0.05 from q + 0.1 or q - 0.1,
\* hence exactly that value when q is a multiple of 0.1; either result is
\* clamped to [0.1, 10], a Q field that does not parse counts as q = 1, and
\* applyEQ is called once.
C6_RoundedStep ==
    [][C6_WheelStep =>
         /\ lastOp'.applied = 1
         /\ IF lastOp'.pt[2] = 1
            THEN At(filters', lastOp'.idx).q = C6_Clamped(C6_Target)
            ELSE \E r \in {C6_Target - d : d \in -5 .. 5} :
                    /\ r % 10 = 0
                    /\ At(filters', lastOp'.idx).q = C6_Clamped(r)]_vars

\* a wheel tick up without the modifier has turned a Q of 1.23 into 1.3
C6_Witness ==
    /\ lastOp.name = "wheel"
    /\ lastOp.idx = 0
    /\ lastOp.pt = <<-1, 0>>
    /\ steps = MaxWheelSteps - 3
    /\ At(filters, 1).q = 123
    /\ At(filters, 0).q = 130

\* C7: no step of a whisker gesture (start, drag, end) changes the number
\* of rows or bands, any row other than the gesture's, or the frequency, gain,
\* type or enabled flag of the gesture's row.
C7_Step ==
    (lastOp'.name \in {"whiskerStart", "whiskerDrag", "whiskerEnd"} /\ steps' = steps - 1)
    => /\ bands' = bands
       /\ Len(filters') = Len(filters)
       /\ \A k \in 1 .. Len(filters) :
             /\ filters'[k].freq = filters[k].freq
             /\ filters'[k].gain = filters[k].gain
             /\ filters'[k].type = filters[k].type
             /\ filters'[k].enabled = filters[k].enabled
             /\ k # lastOp'.idx + 1 => filters'[k] = filters[k]

C7_WhiskerWritesOnlyQ == [][C7_Step]_vars

\* a whisker drag has stored the lower limit of Q in a row whose frequency and
\* gain are the host's
C7_Witness ==
    /\ lastOp.name = "whiskerDrag"
    /\ lastOp.idx = 1
    /\ Len(filters) = 2
    /\ At(filters, 1).wrote = {"q"}
    /\ At(filters, 1).q = 10
    /\ At(filters, 1).gain = -300

\* C8: a graph click inside the plot area, with the module enabled, no drag
\* under way, no delete just done and a slot free, stores enabled = true,
\* type PK, q = 1.0, the frequency at the pointer rounded to a whole Hz and
\* clamped to [20, 20000], and the gain (level at the pointer minus the level
\* of the selected device's curve at that frequency, or minus the middle of
\* the visible gain axis without a curve) rounded to 0.1 dB and clamped to
\* [-40, 40]; it stores them in the first row whose frequency is unset or 0,
\* else in a new row at the previous band count, changes no other row and
\* calls applyEQ once.
C8_Rounded(num, den) == (2 * num + den) \div (2 * den)
C8_Within(lo, hi, v) == IF v < lo THEN lo ELSE IF v > hi THEN hi ELSE v
C8_FirstUnset == {i \in 1 .. Len(filters) :
                    /\ filters[i].freq \in {0, NaN}
                    /\ \A j \in 1 .. (i - 1) : filters[j].freq \notin {0, NaN}}
C8_Accepted ==
    /\ steps' = steps - 1
    /\ lastOp'.name = "click"
    /\ enabled /\ ~isDragging /\ ~justDeletedFilter
    /\ lastOp'.pt[1] \in PadL .. (PadL + PlotW)
    /\ lastOp'.pt[2] \in PadT .. (PadT + PlotH)
    /\ C8_FirstUnset # {} \/ bands < BandsMax

C8_Step ==
    C8_Accepted =>
      LET slot == IF C8_FirstUnset # {} THEN CHOOSE i \in C8_FirstUnset : TRUE
                  ELSE bands + 1
          f == C8_Within(200, 200000, 10 * C8_Rounded(XInvert(lastOp'.pt[1]), 10))
          y == YInvert(lastOp'.pt[2])
          level == SamplePhoneCurveAt(GetEQPhoneObj(eqPhoneSelect'), f)
          new == filters'[slot]
      IN /\ lastOp'.applied = 1
         /\ lastOp'.idx = slot - 1
         /\ bands' = IF C8_FirstUnset # {} THEN bands ELSE bands + 1
         /\ \A k \in 1 .. Len(filters) : k # slot => filters'[k] = filters[k]
         /\ new.enabled /\ new.type = "PK" /\ new.q = 100 /\ new.freq = f
         /\ new.gain =
              IF level.kind = "num"
              THEN C8_Within(-4000, 4000,
                             10 * C8_Rounded(y * level.den - level.num, 10 * level.den))
              ELSE C8_Within(-4000, 4000,
                             10 * C8_Rounded(2 * y - (YDomain[1] + YDomain[2]), 20))

C9_Step ==
    (/\ steps' = steps - 1
     /\ lastOp'.name = "click"
     /\ bands = BandsMax
     /\ \A k \in 1 .. Len(filters) : filters[k].freq # NaN /\ filters[k].freq > 0)
    => /\ filters' = filters
       /\ bands' = bands
       /\ lastOp'.applied = 0
       /\ ~lastOp'.threw

C10_Step ==
    (/\ steps' = steps - 1
     /\ lastOp'.name = "delete"
     /\ lastOp'.idx < Len(filters)
     /\ bands = Len(filters))
    => LET n == Len(filters)
           k == lastOp'.idx
       IN /\ bands' = IF n - 1 >= 1 THEN n - 1 ELSE 1
          /\ Len(filters') = bands'
          /\ \A j \in 0 .. (n - 2) :
                At(filters', j) = IF j < k THEN At(filters, j) ELSE At(filters, j + 1)
          /\ n = 1 => At(filters', 0).freq \in {0, NaN}

C11_RenderStep ==
    /\ steps' = steps - 1
    /\ lastOp'.name = "updateHandles"
    /\ enabled

C11_NoHandlesWhileDisabled == ~enabled' => \A i \in DOMAIN handles' : ~handles'[i].present

C11_NewHandlesHidden ==
    \A i \in DOMAIN handles' :
        (handles'[i].present /\ ~handles[i].present) => ~handles'[i].selected

C11_EnabledRowsOnly ==
    [][/\ C11_NoHandlesWhileDisabled
       /\ C11_RenderStep =>
            /\ C11_NewHandlesHidden
            /\ \A i \in DOMAIN handles' :
                  handles'[i].present <=>
                     /\ i < Len(filters)
                     /\ At(filters, i).enabled
                     /\ At(filters, i).freq # NaN /\ At(filters, i).freq > 0]_vars

\* C11: after updateHandles() on the enabled module there is a handle at
\* index i exactly when row i exists and has a frequency above 0, whether the
\* row is enabled or not; the handle carries the row's frequency and has the
\* class "disabled" exactly when the row is not enabled; a handle that was
\* not there before has its secondary controls hidden; and while the module
\* is disabled there is no handle.
C11_RowsWithFrequency ==
    [][/\ C11_NoHandlesWhileDisabled
       /\ C11_RenderStep =>
            /\ C11_NewHandlesHidden
            /\ \A i \in DOMAIN handles' :
                  /\ handles'[i].present <=>
                        /\ i < Len(filters)
                        /\ At(filters, i).freq # NaN /\ At(filters, i).freq > 0
                  /\ handles'[i].present =>
                        /\ handles'[i].freq = At(filters, i).freq
                        /\ handles'[i].disabled = ~At(filters, i).enabled]_vars

\* updateHandles() has just rendered the handle of a row that is not enabled
\* and removed the handle of a row whose frequency is below 0
C11_Witness ==
    /\ lastOp.name = "updateHandles"
    /\ enabled
    /\ Len(filters) = 2
    /\ ~At(filters, 0).enabled /\ At(filters, 0).freq = 5000
    /\ handles[0].present /\ handles[0].disabled
    /\ At(filters, 1).freq = -500
    /\ ~handles[1].present

\* C12 as stated: when the animation-frame callback of a drag has stored a
\* frequency and a gain and moved the dragged handle, the handle is where
\* updateHandles() puts it for the stored frequency and gain (same device,
\* same scales).
C12_FrameMovedHandle ==
    /\ pendingFrame.set
    /\ ~pendingFrame'.set
    /\ ~lastOp'.threw
    /\ enabled
    /\ pendingFrame.filterIndex < Len(filters)
    /\ handles[pendingFrame.filterIndex].present
    /\ \E k \in 1 .. Len(sessions) :
          /\ sessions[k].sid = pendingFrame.sid
          /\ sessions[k].elem = handles[pendingFrame.filterIndex].born

C12_PreviewEqualsRender ==
    [][C12_FrameMovedHandle =>
         handles'[pendingFrame.filterIndex].pos =
            UpdateEQHandles(handles', enabled', filters', eqPhoneSelect')[pendingFrame.filterIndex].pos]_vars

\* C13: after any number of enable()/disable() cycles and after repeated
\* enable() calls on an initialized module, each listener of enable (touchstart
\* and touchmove on the SVG element, touchend on the document, click,
\* touchstart and touchend on the interaction rectangle) is registered exactly
\* once while the module is enabled and not at all while it is disabled
C13_ListenersRegisteredOnce ==
    \A k \in DOMAIN listeners : listeners[k] = IF enabled THEN 1 ELSE 0

\* enable() has run on a module that was enabled already
C13_Witness ==
    /\ lastOp.name = "enable"
    /\ lastOp.wasEnabled
    /\ \A k \in DomListeners \cup RectListeners : listeners[k] = 1

\* C14 as stated: enable() on an enabled module, disable() on a disabled
\* module, and either call on an uninitialized module change no module state
\* and invoke none of clearLabels, updatePaths and the handle re-render
C14_RedundantCall ==
    /\ steps' = steps - 1
    /\ \/ lastOp'.name \in {"enable", "disable"} /\ ~initialized
       \/ lastOp'.name = "enable" /\ enabled
       \/ lastOp'.name = "disable" /\ ~enabled

C14_RedundantCallIsNoOp ==
    [][C14_RedundantCall => (UNCHANGED moduleVars /\ lastOp'.calls = {})]_vars

\* the sample data the sampler is given: that of the active curve, else that
\* of the raw channel
C15_CurveData ==
    LET p == GetEQPhoneObj(eqPhoneSelect)
    IN IF p.active.kind # "absent" THEN p.active ELSE p.raw

C15_NoData ==
    \/ ~GetEQPhoneObj(eqPhoneSelect).present
    \/ C15_CurveData.kind # "array"
    \/ Len(C15_CurveData.data) = 0

\* C15 as stated: the sampler never throws and never yields a non-number; with
\* no device selected, or sample data that is missing, not an array or an
\* empty array, it returns null
C15_SamplerNeverThrows ==
    sampled.any =>
        /\ sampled.result.kind \in {"null", "num"}
        /\ C15_NoData => sampled.result = SampleNull

C16_Reduced(n, d) == <<n \div GCD(Abs(n), d), d \div GCD(Abs(n), d)>>

C16_Sorted(data) == \A i \in 1 .. (Len(data) - 1) : data[i][1] <= data[i + 1][1]

\* C16: for a curve sorted ascending by frequency, the sampler returns
\* l1 + (f - f1) / (f2 - f1) * (l2 - l1) + offset when f1 < f <= f2 for adjacent
\* samples (f1, l1), (f2, l2), and the first sample's level + offset when f is
\* at or below the first sample's frequency
C16_LinearInterpolation ==
    (sampled.any /\ ~C15_NoData /\ C16_Sorted(C15_CurveData.data)) =>
        LET data == C15_CurveData.data
            offset == GetEQPhoneObj(eqPhoneSelect).offset
            f == sampled.freq
        IN /\ f <= data[1][1] => sampled.result = SampleNum(data[1][2] + offset, 1)
           /\ \A i \in 1 .. (Len(data) - 1) :
                 (data[i][1] < f /\ f <= data[i + 1][1]) =>
                     /\ sampled.result.kind = "num"
                     /\ C16_Reduced(sampled.result.num, sampled.result.den)
                          = C16_Reduced((data[i][2] + offset) * (data[i + 1][1] - data[i][1])
                                           + (f - data[i][1]) * (data[i + 1][2] - data[i][2]),
                                        data[i + 1][1] - data[i][1])

\* the curve (20, 0), (1000, 3), (20000, 0) sampled at 500 Hz gives
\* 3 * (500 - 20) / (1000 - 20) dB, which is 7200 / 49 hundredths
C16_Witness ==
    /\ sampled.any
    /\ GetEQPhoneObj(eqPhoneSelect) = PhoneB
    /\ sampled.freq = 5000
    /\ sampled.result.kind = "num"
    /\ C16_Reduced(sampled.result.num, sampled.result.den) = <<7200, 49>>

\* the long-press timeout that ran in this step
C17_Fired == CHOOSE t \in longPressTimers : t \notin longPressTimers'

C17_LongPressStep == lastOp'.name = "longPress" /\ longPressTimers' # longPressTimers

\* C17 as stated: the long press fires only for a touch that is still down
\* 500 ms after it started (never for a touch that ended before); when it
\* fires, the pressed handle's secondary controls are toggled and those of
\* every other handle are hidden
C17_LongPressOfHeldTouch ==
    [][C17_LongPressStep =>
          /\ now = C17_Fired.due
          /\ \E k \in 1 .. Len(touches) : touches[k].tid = C17_Fired.touch
          /\ handles'[C17_Fired.idx].selected = ~handles[C17_Fired.idx].selected
          /\ \A i \in DOMAIN handles : i # C17_Fired.idx => ~handles'[i].selected]_vars

C18_Touched(i) == \E k \in 1 .. Len(touches) : touches[k].idx = i

\* C18 as stated, for touch: a handle whose secondary controls are shown and
\* which no touch is on has them hidden again at some later time, unless a
\* touch goes down on that handle before; touches on another handle do not
\* keep them shown
C18_ShownControlsGetHidden ==
    \A i \in 0 .. (BandsMax - 1) :
        (handles[i].selected /\ ~C18_Touched(i))
            ~> (~handles[i].selected \/ C18_Touched(i))

\* the Q the filter has after the drag: the handler returns before the write
\* when the edge is not on its side of the centre
C19_StoredQ == IF roundTrip.newQ = NaN THEN <<roundTrip.q[1] * 100, roundTrip.q[2]>>
               ELSE <<roundTrip.newQ, 1>>

\* |stored Q - q| <= 0.01, in hundredths
C19_Within == Abs(C19_StoredQ[1] * roundTrip.q[2] - roundTrip.q[1] * 100 * C19_StoredQ[2])
                  <= roundTrip.q[2] * C19_StoredQ[2]

\* the edge of the band on the side that was dragged lies in [20, 20000] Hz
C19_EdgeInRange ==
    LET span == WhiskerSpan(roundTrip.freq, roundTrip.q[1], roundTrip.q[2])
    IN IF roundTrip.side = "right"
       THEN span.highNum <= 10 * FreqMax * span.highDen
       ELSE span.lowNum >= 10 * FreqMin * span.lowDen

\* C19 as stated: for every centre frequency in [20, 20000] and every q in
\* [0.1, 10], dragging a whisker end to the band edge computed from q stores a
\* Q within 0.01 of q
C19_RoundTrip == roundTrip.any => C19_Within

\* C19, amended: the same when the band edge lies in [20, 20000] Hz, the
\* range the drag handler clamps the pointer's frequency to
C19_RoundTripInRange == (roundTrip.any /\ C19_EdgeInRange) => C19_Within

\* 1 kHz with Q 1.2: the right end dragged to 1.5 kHz stores 1.2
C19_Witness ==
    /\ roundTrip.any
    /\ roundTrip.side = "right"
    /\ roundTrip.freq = 10000
    /\ roundTrip.q = <<6, 5>>
    /\ C19_EdgeInRange
    /\ roundTrip.newQ = 120

\* C20: at most one animation-frame callback of a drag is scheduled at any
\* time, and pendingFrame holds it: a move that arrives while one is scheduled
\* schedules no second one, and the slot is empty again once the callback ran
C20_OneFrameScheduled ==
    /\ Len(frames) <= 1
    /\ pendingFrame.set <=> frames # <<>>
    /\ pendingFrame.set => frames = <<pendingFrame>>

\* a move has arrived while a callback was scheduled
C20_Witness ==
    /\ lastOp.name = "move"
    /\ Len(frames) = 1
    /\ lastOp.pt # <<Head(frames).cx, Head(frames).cy>>
    /\ \E k \in 1 .. Len(sessions) : sessions[k].live /\ sessions[k].moved

\* the animation-frame callback runs right after a move that its session
\* received
C21_FrameAfterMove ==
    /\ frames # <<>>
    /\ frames' = Tail(frames)
    /\ lastOp.name = "move"
    /\ lastOp'.name = "frame"
    /\ \E k \in 1 .. Len(sessions) :
          sessions[k].sid = Head(frames).sid /\ sessions[k].live

\* C21 as stated: the frame computes from the position of the most recent
\* move that arrived before it ran, so the frequency it writes is that of the
\* latest pointer position
C21_FrameUsesLatestMove ==
    [][C21_FrameAfterMove =>
          /\ lastOp'.pt = lastOp.pt
          /\ (~lastOp'.threw /\ lastOp'.idx < Len(filters)) =>
                 At(filters', lastOp'.idx).freq = DragFreq(lastOp.pt[1])]_vars

\* the animation-frame callback runs and writes the frequency and gain
C22_FrameWrites ==
    /\ frames # <<>>
    /\ frames' = Tail(frames)
    /\ lastOp'.name = "frame"
    /\ ~lastOp'.threw
    /\ lastOp'.idx < Len(filters)

\* C22 as stated: a recomputation that is still scheduled at pointer-up is
\* discarded, so no frame of a session writes a filter parameter after the
\* session's pointer-up has invoked applyEQ
C22_NoWriteAfterCommit ==
    [][C22_FrameWrites =>
          \A k \in 1 .. Len(sessions) :
              sessions[k].sid = Head(frames).sid => sessions[k].commits = 0]_vars

\* dblclick on a handle, after the second of two clicks on it
C23_DblClickStep ==
    /\ lastOp.name = "click"
    /\ lastOp'.name = "dblclick"
    /\ clickRun.count = 2

\* C23 as stated: after two clicks followed by dblclick no toggle is pending,
\* none has fired, and the secondary controls of the handle are shown or
\* hidden as they were before the first click
C23_DoubleClickCancelsToggle ==
    [][C23_DblClickStep =>
          /\ \A b \in Batches : ~clickTimer'[b].set
          /\ handles'[lastOp'.idx].selected = clickRun.shown]_vars

\* click on a handle, dispatched after the mouseup of the gesture
C24_ClickStep ==
    /\ lastOp.name = "up"
    /\ lastOp'.name = "click"
    /\ sessions # <<>>

\* the 250 ms timeout of a click runs
C24_ToggleStep ==
    /\ lastOp'.name = "clickTimeout"
    /\ \E b \in Batches : clickTimer[b].set /\ ~clickTimer'[b].set

\* C24: the click that ends a gesture which moved 5 px or more from its start
\* schedules no toggle; the click of a gesture that never did schedules one
\* toggle of the clicked handle, due 250 ms later, and changes no handle; the
\* toggle, when it runs, changes no other handle
C24_DragSuppressesToggle ==
    [][/\ C24_ClickStep =>
            LET s == sessions[Len(sessions)]
                i == lastOp'.idx
                b == handles[i].batch
            IN /\ handles' = handles
               /\ s.crossed => clickTimer' = clickTimer
               /\ ~s.crossed =>
                     /\ clickTimer'[b] = [set |-> TRUE, idx |-> i, born |-> handles[i].born,
                                          due |-> now + ClickDelay]
                     /\ \A c \in Batches \ {b} : clickTimer'[c] = clickTimer[c]
       /\ C24_ToggleStep =>
            \A j \in DOMAIN handles : j # lastOp'.idx => handles'[j] = handles[j]]_vars

\* the handles whose secondary controls are shown
C26_Shown(hs) == {i \in DOMAIN hs : hs[i].present /\ hs[i].selected}

\* C26 as stated: when the secondary controls of a handle become shown, those
\* of every other handle are hidden in the same step, so at most one handle
\* shows them at any time
C26_SingleSelection ==
    [][\A i \in C26_Shown(handles') \ C26_Shown(handles) :
            C26_Shown(handles') = {i}]_vars

\* C25 as stated: a touch that has moved more than 3 px from where it went
\* down has no long press; the timeout of a touch that is down runs only if
\* the touch stayed within 3 px
C25_MovedTouchHasNoLongPress ==
    [][C17_LongPressStep =>
          \A k \in 1 .. Len(touches) :
              touches[k].tid = C17_Fired.touch => ~touches[k].slipped]_vars

\* the geometry of a whisker-drag frame is degenerate: with the edge clamped
\* to [20, 20000] Hz, fHigh <= fLow (the edge is not on its side of the
\* centre), which is also when the bandwidth log2(fHigh / fLow) is not positive
C27_Degenerate(side, dfreq, px) ==
    LET freq == IF dfreq = 0 \/ dfreq = NaN THEN 10 * WhiskerFreqDefault ELSE dfreq
        edge == Clamp(10 * FreqMin, 10 * FreqMax, XInvert(px))
    IN IF side = "left" THEN freq <= edge ELSE edge <= freq

\* C27: a frame of a whisker drag with degenerate geometry changes nothing:
\* the stored Q of every filter, and the Q the whisker line, the whisker ends
\* and the radius were last drawn from, stay as they were
C27_DegenerateFrameIsNoOp ==
    [][(/\ whisker.active
        /\ lastOp'.name = "whiskerDrag"
        /\ steps' = steps - 1
        /\ C27_Degenerate(whisker.side, whisker.freq, lastOp'.pt[1]))
          => /\ filters' = filters
             /\ whisker' = whisker
             /\ handles' = handles
             /\ ~lastOp'.threw]_vars

\* a degenerate frame came after a frame of the same gesture that stored a Q
C27_Witness ==
    /\ whisker.active
    /\ lastOp.name = "whiskerDrag"
    /\ C27_Degenerate(whisker.side, whisker.freq, lastOp.pt[1])
    /\ whisker.drawnQ # NaN
    /\ whisker.idx < Len(filters)
    /\ At(filters, whisker.idx).q = whisker.drawnQ

\* C28 as stated: a handle has at most one drag session whose document
\* listeners are registered; a pointer-down on a handle with a session that
\* has not ended creates no second one
C28_OneLiveSessionPerHandle ==
    \A j, k \in 1 .. Len(sessions) :
        (sessions[j].live /\ sessions[k].live /\ sessions[j].elem = sessions[k].elem)
            => j = k

\* C29 as stated: while the module is disabled no handler writes a filter
\* parameter or invokes applyEQ, the handlers of a drag that was in progress
\* when disable() was called included
C29_DisabledWritesNothing ==
    [][~enabled => (filters' = filters /\ lastOp'.applied = 0)]_vars

\* C30 as stated: isDragging is true from the pointer-down of a session until
\* the timeout of its pointer-up, so it is true while any session is live
C30_LiveSessionIsDragging ==
    (\E k \in 1 .. Len(sessions) : sessions[k].live) => isDragging

\* a timeout that hides secondary controls runs
C31_AutoHideStep ==
    lastOp'.name \in {"whiskerFadeTimeout", "mobileWhiskerTimeout"} /\ lastOp' # lastOp

\* C31 as stated: no timeout hides the secondary controls of the handle the
\* pointer is over
C31_HoveredStaysShown ==
    [][C31_AutoHideStep =>
          \A i \in DOMAIN handles :
              (handles[i].present /\ handles[i].selected
                  /\ hoveredHandle = handles[i].born) => handles'[i].selected]_vars

\* the smallest and the largest level of the samples of a curve
C32_MinLevel(data) == CHOOSE l \in {data[i][2] : i \in 1 .. Len(data)} :
                          \A i \in 1 .. Len(data) : l <= data[i][2]
C32_MaxLevel(data) == CHOOSE l \in {data[i][2] : i \in 1 .. Len(data)} :
                          \A i \in 1 .. Len(data) : l >= data[i][2]

\* C32 as stated: for a curve sorted ascending by frequency and a frequency
\* in [20, 20000] Hz, the sampled level without the offset lies between the
\* smallest and the largest level of the samples
C32_NoExtrapolation ==
    (/\ sampled.any /\ ~C15_NoData /\ C16_Sorted(C15_CurveData.data)
     /\ sampled.freq >= 10 * FreqMin /\ sampled.freq <= 10 * FreqMax) =>
        LET data == C15_CurveData.data
            offset == GetEQPhoneObj(eqPhoneSelect).offset
            r == sampled.result
        IN /\ r.kind = "num"
           /\ C32_MinLevel(data) * r.den <= r.num - offset * r.den
           /\ r.num - offset * r.den <= C32_MaxLevel(data) * r.den

\* a call of the public API that is not a no-op: enable(), disable() or
\* destroy() on an initialized module
C33_Effective(name) ==
    lastOp'.name = name /\ steps' = steps - 1 /\ initialized

\* C33 as stated: enabled implies initialized; isEnabled() is true exactly
\* when the last effective call was enable(); and each listener of init() is
\* registered on the document at most once, however often destroy() and
\* init() are called
C33_LifecycleInvariants ==
    [][/\ enabled' => initialized'
       /\ C33_Effective("enable") => enabled'
       /\ (C33_Effective("disable") \/ C33_Effective("destroy")) => ~enabled'
       /\ ~(\E n \in {"enable", "disable", "destroy"} : C33_Effective(n))
             => enabled' = enabled
       /\ \A k \in InitListenerTypes :
             initListeners'[k] = IF initListeners[k] = 0 /\ ~initialized'
                                 THEN 0 ELSE 1]_vars

====
